---- MODULE Spec2Model ----
(***************************************************************************)
(* Model of the daily briefing pipeline: retry_with_backoff, run_pipeline  *)
(* and main of src/main.py, with the collaborators they call               *)
(* (GmailClient, NewsletterParser, Deduplicator, TTSClient, EmailSender)   *)
(* modelled by the outcomes their code can produce.                        *)
(*                                                                         *)
(* Specifications:                                                         *)
(*   RetrySpec  one call of retry_with_backoff on an arbitrary fallible    *)
(*              operation, with parameters drawn from bounded sets;        *)
(*   Spec       one run of main(): run_pipeline and the error handler;     *)
(*   FetchSpec  the content-fetch loop of run_pipeline on an arbitrary     *)
(*              list of messages returned by the list stage;               *)
(*   GmailSpec  one GmailClient, its methods called in any order;          *)
(*   DedupSpec  one call of Deduplicator.process on an arbitrary list;     *)
(*   ScriptSpec one call of ScriptGenerator.generate on arbitrary stories  *)
(*              and source names;                                          *)
(*   BriefingSpec  one call of BriefingGenerator.generate: its subject     *)
(*              line and executive summary;                                *)
(*   NarrationSpec  ScriptGenerator.generate invoked repeatedly on the     *)
(*              same stories, at arbitrary clock readings.                 *)
(***************************************************************************)
EXTENDS Integers, Sequences, FiniteSets, TLC

\* ---------------------------------------------------------------- bounds
MaxN == 6            \* RetrySpec: largest max_attempts passed to retry_with_backoff
MaxAttempts == 3     \* Spec: largest configured retry.max_attempts
MaxListed == 2       \* Spec: largest number of messages search_newsletters returns
MaxMessages == 3     \* FetchSpec: largest number of listed messages
MaxRaw == 3          \* DedupSpec: largest number of raw stories given to process
MaxSources == 3      \* ScriptSpec: largest number of processed newsletter names
MaxTop == 2          \* ScriptSpec: largest number of top stories
MaxSecondary == 2    \* ScriptSpec: largest number of secondary stories
MaxBriefTop == 6     \* BriefingSpec: largest number of top stories
MaxDetail == 3       \* NarrationSpec: largest number of top stories
MaxInvocations == 2  \* NarrationSpec: largest number of invocations of generate

\* ------------------------------------------------------ program constants
DefaultMaxAttempts == 3
DefaultBaseDelay == 5
DefaultMaxDelay == 60

BaseDelays == {1, DefaultBaseDelay}
MaxDelays == {8, DefaultMaxDelay}

None == "None"

VARIABLES
    config,             \* Config: the settings run_pipeline and main read
    pc,                 \* position in main / run_pipeline / the retried operation
    max_attempts,       \* retry_with_backoff parameter
    base_delay,         \* retry_with_backoff parameter
    attempt,            \* retry_with_backoff loop variable (0-based)
    last_exception,     \* retry_with_backoff local
    rlog,               \* history of the current retry_with_backoff call: calls and sleeps
    retval,             \* value returned by the current retry_with_backoff call
                        \* (GmailSpec, DedupSpec, ScriptSpec: outcome of the call studied)
    raised,             \* exception that left retry_with_backoff / run_pipeline
    service,            \* gmail_client.service of run_pipeline's client is set
    email_list,         \* run_pipeline local: listed messages (their From headers; id = position)
    fetch_i,            \* run_pipeline: index of the next message of the fetch loop
    fetch_log,          \* history: calls of get_email_text in order (id, returned or raised)
    newsletters,        \* run_pipeline local
    newsletters_processed, \* run_pipeline local
    raw_stories,        \* run_pipeline local: number of extracted stories
    processed_data,     \* run_pipeline local: the categorized result (list lengths;
                        \* ScriptSpec: the story lists themselves)
    audio_path,         \* run_pipeline local
    audio_file,         \* filesystem: briefing_audio.mp3 exists
    briefing,           \* run_pipeline local: the rendered briefing
    send_log,           \* history: attachment_path of every gmail send of the briefing
    result,             \* dictionary returned by run_pipeline
    notified,           \* history: error notifications attempted by main
    exit_code,          \* sys.exit argument
    invoked,            \* history: collaborators invoked in this run
    completed,          \* history: collaborators that returned in this run
    remote_ok,          \* history: stages one of whose remote calls succeeded
    remote_err,         \* history: stages one of whose remote calls raised
    script_log          \* history: clock reading and script of every invocation of
                        \* ScriptGenerator.generate (ScriptSpec, NarrationSpec)

retry_vars == <<max_attempts, base_delay, attempt, last_exception, rlog, retval>>
fetch_vars == <<email_list, fetch_i, fetch_log, newsletters, newsletters_processed>>
story_vars == <<raw_stories, processed_data>>
audio_vars == <<audio_path, audio_file>>
send_vars == <<briefing, send_log>>
main_vars == <<result, notified, exit_code>>
hist_vars == <<invoked, completed, remote_ok, remote_err>>

vars == <<config, pc, raised, service, retry_vars, fetch_vars, story_vars,
          audio_vars, send_vars, main_vars, hist_vars, script_log>>

\* ------------------------------------------------------------ exceptions
\* An exception object: its type, the call that raised it and which
\* invocation of that call (exceptions of distinct invocations are distinct).
Exc(type, origin, k) == [type |-> type, origin |-> origin, k |-> k]

\* Python's None where an exception may stand (main.py:39)
NoException == Exc("None", "None", 0)

\* ------------------------------------------------- retry_with_backoff
CallEv(k, ok) == [ev |-> "call", k |-> k, ok |-> ok, delay |-> 0]
SleepEv(k, d) == [ev |-> "sleep", k |-> k, ok |-> FALSE, delay |-> d]

RECURSIVE Pow2(_)
Pow2(n) == IF n = 0 THEN 1 ELSE 2 * Pow2(n - 1)

\* main.py:47   delay = base_delay * (2 ** attempt)
Delay(base, att) == base * Pow2(att)

\* main.py:46   if attempt < max_attempts - 1
ShouldSleep_always(att, maxa) == TRUE
ShouldSleep(att, maxa) == att < maxa - 1

\* main.py:41   for attempt in range(max_attempts): another iteration follows
LoopContinues_short(att, maxa) == att + 1 < maxa - 1
LoopContinues(att, maxa) == att + 1 < maxa

\* main.py:45   last_exception = e
RecordFailure_first(prev, e) == IF prev = NoException THEN e ELSE prev
RecordFailure(prev, e) == e

NumCalls(log) == Cardinality({j \in 1..Len(log) : log[j].ev = "call"})
NumFailed(log) == Cardinality({j \in 1..Len(log) : log[j].ev = "call" /\ ~log[j].ok})
NumSleeps(log) == Cardinality({j \in 1..Len(log) : log[j].ev = "sleep"})

\* main.py:39-41  entry of retry_with_backoff(func, max_attempts, base_delay)
RetryEnter(maxa, base) ==
    /\ max_attempts' = maxa
    /\ base_delay' = base
    /\ attempt' = 0
    /\ last_exception' = NoException
    /\ rlog' = <<>>
    /\ retval' = None

\* main.py:43   func() returned v: retry_with_backoff returns it
RetryReturn(v) ==
    /\ rlog' = Append(rlog, CallEv(NumCalls(rlog) + 1, TRUE))
    /\ retval' = v
    /\ UNCHANGED <<max_attempts, base_delay, attempt, last_exception>>

\* main.py:44-50  func() raised e: record it, sleep unless this was the last attempt
RetryExcept(e) ==
    /\ last_exception' = RecordFailure(last_exception, e)
    /\ rlog' = rlog \o <<CallEv(NumCalls(rlog) + 1, FALSE)>>
                    \o (IF ShouldSleep(attempt, max_attempts)
                        THEN <<SleepEv(NumCalls(rlog) + 1, Delay(base_delay, attempt))>>
                        ELSE <<>>)
    /\ attempt' = attempt + 1
    /\ UNCHANGED <<max_attempts, base_delay, retval>>

\* main.py:41,52  the loop is over after this failure: raise last_exception
Exhausted == ~LoopContinues(attempt, max_attempts)

\* ------------------------------------------------------------ RetrySpec
NoConfig ==
    [max_retry_attempts |-> DefaultMaxAttempts, retry_base_delay |-> DefaultBaseDelay,
     retry_max_delay |-> DefaultMaxDelay, audio_enabled |-> FALSE,
     recipient_email |-> "", anthropic_api_key |-> FALSE]

PipelineIdle ==
    /\ raised = NoException
    /\ service = FALSE
    /\ email_list = <<>>
    /\ fetch_i = 1
    /\ fetch_log = <<>>
    /\ newsletters = <<>>
    /\ newsletters_processed = <<>>
    /\ raw_stories = None
    /\ processed_data = None
    /\ audio_path = None
    /\ audio_file = FALSE
    /\ briefing = None
    /\ send_log = <<>>
    /\ result = None
    /\ notified = <<>>
    /\ exit_code = None
    /\ invoked = {}
    /\ completed = {}
    /\ remote_ok = {}
    /\ remote_err = {}
    /\ script_log = <<>>

RetryInit ==
    /\ pc = "func"
    /\ \E n \in 1..MaxN, b \in BaseDelays, d \in MaxDelays :
          /\ config = [NoConfig EXCEPT !.max_retry_attempts = n,
                                       !.retry_base_delay = b,
                                       !.retry_max_delay = d]
          /\ max_attempts = n
          /\ base_delay = b
    /\ attempt = 0
    /\ last_exception = NoException
    /\ rlog = <<>>
    /\ retval = None
    /\ PipelineIdle

rest_vars == <<config, script_log, service, fetch_vars, story_vars, audio_vars, send_vars,
               main_vars, hist_vars>>

\* the operation returns: retry_with_backoff returns its result
FuncReturns_again ==
    /\ pc = "func"
    /\ RetryReturn([value |-> "result", k |-> NumCalls(rlog) + 1])
    /\ pc' = IF NumCalls(rlog) + 1 < max_attempts THEN "func" ELSE "func_returned"
    /\ UNCHANGED <<raised, rest_vars>>
FuncReturns ==
    /\ pc = "func"
    /\ RetryReturn([value |-> "result", k |-> NumCalls(rlog) + 1])
    /\ pc' = "func_returned"
    /\ UNCHANGED <<raised, rest_vars>>

\* the operation raises: retry or, after the last attempt, raise
FuncRaises ==
    /\ pc = "func"
    /\ RetryExcept(Exc("Exception", "func", NumCalls(rlog) + 1))
    /\ IF Exhausted
       THEN pc' = "func_raised" /\ raised' = last_exception'
       ELSE pc' = "func" /\ raised' = raised
    /\ UNCHANGED rest_vars

RetryNext == FuncReturns \/ FuncRaises

RetrySpec == RetryInit /\ [][RetryNext]_vars

\* ======================================================================
\* Spec: one run of main()
\* ======================================================================

\* ------------------------------------------------------------- Config
\* config.yaml newsletter_sources: (email, name) pairs; strings are
\* sequences of characters so that lower() and `in` are computed.
newsletter_sources ==
    << [email |-> <<"a", "@", "x">>, name |-> <<"A", "l", "f", "a">>],
       [email |-> <<"B", "@", "x">>, name |-> <<"B", "e", "t", "a">>] >>

\* From headers search_newsletters can report
FromHeaders ==
    { <<"<", "A", "@", "x", ">">>, <<"b", "@", "x">>, <<"c", "@", "y">> }

\* the From headers of the messages listed in Spec
ListedHeaders ==
    { <<"<", "A", "@", "x", ">">>, <<"c", "@", "y">> }

Recipients == {"", "me@example.com"}

Lower(c) == CASE c = "A" -> "a" [] c = "B" -> "b" [] OTHER -> c
LowerStr(s) == [j \in 1..Len(s) |-> Lower(s[j])]

\* Python `needle in hay` on strings
Contains(hay, needle) ==
    \E off \in 0..(Len(hay) - Len(needle)) :
        \A j \in 1..Len(needle) : hay[off + j] = needle[j]

MinOf(S) == CHOOSE x \in S : \A y \in S : x <= y
Min(a, b) == IF a <= b THEN a ELSE b

\* config.py:58-64
get_source_name(email) ==
    LET email_lower == LowerStr(email)
        hits == {j \in 1..Len(newsletter_sources) :
                    \/ Contains(email_lower, LowerStr(newsletter_sources[j].email))
                    \/ Contains(LowerStr(newsletter_sources[j].email), email_lower)}
    IN  IF hits = {} THEN email ELSE newsletter_sources[MinOf(hits)].name

Configs ==
    [max_retry_attempts : 1..MaxAttempts,
     retry_base_delay : {DefaultBaseDelay},
     retry_max_delay : {DefaultMaxDelay},
     audio_enabled : BOOLEAN,
     recipient_email : Recipients,
     anthropic_api_key : BOOLEAN]

SeqsUpTo(S, n) == UNION {[1..k -> S] : k \in 0..n}
MessageLists == SeqsUpTo(ListedHeaders, MaxListed)

Init ==
    /\ pc = "construct"
    /\ config \in Configs
    /\ max_attempts = 0
    /\ base_delay = 0
    /\ attempt = 0
    /\ last_exception = NoException
    /\ rlog = <<>>
    /\ retval = None
    /\ PipelineIdle

\* main.py:96-100 (and 147, 171, 204, 227): retry_with_backoff(f,
\* max_attempts=config.max_retry_attempts, base_delay=config.retry_base_delay)
EnterRetry(stage) ==
    /\ pc' = stage
    /\ RetryEnter(config.max_retry_attempts, config.retry_base_delay)

\* an exception leaves run_pipeline
Propagate(e) ==
    /\ pc' = "raised"
    /\ raised' = e

\* --------------------------------------------------------- components
\* main.py:71-75; NewsletterParser() and Deduplicator() read
\* config.anthropic_api_key, which raises when the key is not set
\* (config.py:102-107)
Construct ==
    /\ pc = "construct"
    /\ IF config.anthropic_api_key
       THEN pc' = "authenticate" /\ raised' = raised
       ELSE Propagate(Exc("ValueError", "anthropic_api_key", 1))
    /\ UNCHANGED <<config, script_log, service, retry_vars, fetch_vars, story_vars, audio_vars,
                   send_vars, main_vars, hist_vars>>

\* main.py:82  gmail_client.authenticate() returns (gmail_client.py:92)
AuthenticateOk ==
    /\ pc = "authenticate"
    /\ service' = TRUE
    /\ invoked' = invoked \cup {"authenticate"}
    /\ completed' = completed \cup {"authenticate"}
    /\ EnterRetry("fetch_newsletters")
    /\ UNCHANGED <<config, script_log, raised, fetch_vars, story_vars, audio_vars, send_vars,
                   main_vars, remote_ok, remote_err>>

\* main.py:82  gmail_client.authenticate() raises (gmail_client.py:74,87, refresh)
AuthenticateFail ==
    /\ pc = "authenticate"
    /\ invoked' = invoked \cup {"authenticate"}
    /\ Propagate(Exc("RuntimeError", "authenticate", 1))
    /\ UNCHANGED <<config, script_log, service, retry_vars, fetch_vars, story_vars, audio_vars,
                   send_vars, main_vars, completed, remote_ok, remote_err>>

\* ------------------------------------------------------- FetchingList
\* main.py:102-110
NoNewslettersResult ==
    [success |-> TRUE, newsletters_found |-> 0, stories_extracted |-> 0,
     briefing_sent |-> FALSE, message |-> "No newsletters found"]

\* main.py:102  if not email_list
NoNewsletters_never(emails) == FALSE
NoNewsletters(emails) == emails = <<>>

\* main.py:88-113  search_newsletters returns a list
FetchNewslettersOk ==
    /\ pc = "fetch_newsletters"
    /\ service
    /\ \E emails \in MessageLists :
          /\ RetryReturn(emails)
          /\ email_list' = emails
          /\ IF NoNewsletters(emails)
             THEN pc' = "returned" /\ result' = NoNewslettersResult
             ELSE pc' = "get_email_text" /\ result' = result
    /\ fetch_i' = 1
    /\ newsletters' = <<>>
    /\ newsletters_processed' = <<>>
    /\ invoked' = invoked \cup {"search_newsletters"}
    /\ completed' = completed \cup {"search_newsletters"}
    /\ remote_ok' = remote_ok \cup {"search_newsletters"}
    /\ UNCHANGED <<config, script_log, raised, service, fetch_log, story_vars, audio_vars,
                   send_vars, notified, exit_code, remote_err>>

\* main.py:88-100  search_newsletters raises (gmail_client.py:164-165, or the
\* remote list/get call)
FetchNewslettersFail ==
    /\ pc = "fetch_newsletters"
    /\ RetryExcept(IF service
                   THEN Exc("HttpError", "search_newsletters", NumCalls(rlog) + 1)
                   ELSE Exc("RuntimeError", "Not authenticated", NumCalls(rlog) + 1))
    /\ IF Exhausted THEN Propagate(last_exception')
                    ELSE pc' = pc /\ raised' = raised
    /\ invoked' = invoked \cup {"search_newsletters"}
    /\ remote_err' = IF service THEN remote_err \cup {"search_newsletters"} ELSE remote_err
    /\ UNCHANGED <<config, script_log, service, fetch_vars, story_vars, audio_vars, send_vars,
                   main_vars, completed, remote_ok>>

\* ---------------------------------------------------- FetchingContent
\* main.py:132-139
FetchFailedResult_failure ==
    [success |-> FALSE, newsletters_found |-> Len(email_list), stories_extracted |-> 0,
     briefing_sent |-> FALSE, message |-> "Failed to fetch newsletter content"]
FetchFailedResult ==
    [success |-> TRUE, newsletters_found |-> Len(email_list), stories_extracted |-> 0,
     briefing_sent |-> FALSE, message |-> "Failed to fetch newsletter content"]

\* main.py:117,130-151: after the iteration for message fetch_i, either the
\* next iteration, or the end of the loop and the test of line 132
LoopDone_first(i, emails) == TRUE
LoopDone(i, emails) == i >= Len(emails)

AfterFetch_early(nl) ==
    IF nl # <<>>
    THEN EnterRetry("extract_stories") /\ result' = result
    ELSE IF ~LoopDone(fetch_i, email_list)
         THEN pc' = pc /\ UNCHANGED <<retry_vars, result>>
         ELSE pc' = "returned" /\ result' = FetchFailedResult /\ UNCHANGED retry_vars
AfterFetch(nl) ==
    IF ~LoopDone(fetch_i, email_list)
    THEN /\ pc' = pc
         /\ UNCHANGED <<retry_vars, result>>
    ELSE IF nl = <<>>
         THEN /\ pc' = "returned"
              /\ result' = FetchFailedResult
              /\ UNCHANGED retry_vars
         ELSE /\ EnterRetry("extract_stories")
              /\ result' = result

\* main.py:125-126
AddSource_dup(processed, name) == Append(processed, name)
AddSource(processed, name) ==
    IF \E j \in 1..Len(processed) : processed[j] = name
    THEN processed ELSE Append(processed, name)

\* main.py:118-126  get_email_text returns the message
GetEmailTextOk ==
    /\ pc = "get_email_text"
    /\ fetch_i <= Len(email_list)
    /\ service
    /\ fetch_log' = Append(fetch_log, [id |-> fetch_i, ok |-> TRUE])
    /\ newsletters' = Append(newsletters, [id |-> fetch_i, from |-> email_list[fetch_i]])
    /\ newsletters_processed' =
          AddSource(newsletters_processed, get_source_name(email_list[fetch_i]))
    /\ fetch_i' = fetch_i + 1
    /\ AfterFetch(newsletters')
    /\ invoked' = invoked \cup {"get_email_text"}
    /\ completed' = completed \cup {"get_email_text"}
    /\ UNCHANGED <<config, script_log, raised, service, email_list, story_vars, audio_vars,
                   send_vars, notified, exit_code, remote_ok, remote_err>>

\* main.py:118-128  get_email_text raises: caught, the message is skipped
GetEmailTextFail ==
    /\ pc = "get_email_text"
    /\ fetch_i <= Len(email_list)
    /\ fetch_log' = Append(fetch_log, [id |-> fetch_i, ok |-> FALSE])
    /\ fetch_i' = fetch_i + 1
    /\ AfterFetch(newsletters)
    /\ invoked' = invoked \cup {"get_email_text"}
    /\ UNCHANGED <<config, script_log, raised, service, email_list, newsletters,
                   newsletters_processed, story_vars, audio_vars, send_vars,
                   notified, exit_code, completed, remote_ok, remote_err>>

\* --------------------------------------------------------- Extracting
\* What happens to one newsletter in extract_stories
\* (newsletter_parser.py:43-50, 68-94):
\*   skip         text shorter than 100 characters, no model call
\*   api_error    client.messages.create raises
\*   parse_error  the response is not JSON
\*   no_stories   the response holds an empty story list
\*   stories      the response holds a story
ExtractOutcomes == {"skip", "api_error", "parse_error", "no_stories", "stories"}

\* newsletter_parser.py:68-94  _extract_from_single: number of stories returned
ExtractFromSingle(outcome) == IF outcome = "stories" THEN 1 ELSE 0

\* newsletter_parser.py:34-52  extract_stories: all_stories.extend(...) per newsletter
RECURSIVE ExtractAll(_, _)
ExtractAll(outs, n) ==
    IF n = 0 THEN 0 ELSE ExtractAll(outs, n - 1) + ExtractFromSingle(outs[n])

\* main.py:155-163
NoStoriesResult ==
    [success |-> TRUE, newsletters_found |-> Len(email_list),
     newsletters_processed |-> Len(newsletters), stories_extracted |-> 0,
     briefing_sent |-> FALSE, message |-> "No stories extracted from newsletters"]

\* main.py:155  if not raw_stories
NoStories_never(n) == FALSE
NoStories(n) == n = 0

\* main.py:144-175  parser.extract_stories returns
ExtractStoriesReturns ==
    /\ pc = "extract_stories"
    /\ \E outs \in [1..Len(newsletters) -> ExtractOutcomes] :
          LET n == ExtractAll(outs, Len(newsletters))
              errs == \E j \in 1..Len(newsletters) : outs[j] = "api_error"
              oks == \E j \in 1..Len(newsletters) : outs[j] \notin {"skip", "api_error"}
          IN  /\ raw_stories' = n
              /\ remote_err' = IF errs THEN remote_err \cup {"extract_stories"} ELSE remote_err
              /\ remote_ok' = IF oks THEN remote_ok \cup {"extract_stories"} ELSE remote_ok
              /\ IF NoStories(n)
                 THEN /\ RetryReturn(n)
                      /\ pc' = "returned"
                      /\ result' = NoStoriesResult
                 ELSE /\ EnterRetry("deduplicate")
                      /\ result' = result
    /\ invoked' = invoked \cup {"extract_stories"}
    /\ completed' = completed \cup {"extract_stories"}
    /\ UNCHANGED <<config, script_log, raised, service, fetch_vars, processed_data, audio_vars,
                   send_vars, notified, exit_code>>

\* main.py:144-151  parser.extract_stories raises: only code outside the try
\* of _extract_from_single can (newsletter_parser.py:36-66)
ExtractStoriesRaises ==
    /\ pc = "extract_stories"
    /\ RetryExcept(Exc("Exception", "extract_stories", NumCalls(rlog) + 1))
    /\ IF Exhausted THEN Propagate(last_exception')
                    ELSE pc' = pc /\ raised' = raised
    /\ invoked' = invoked \cup {"extract_stories"}
    /\ UNCHANGED <<config, script_log, service, fetch_vars, story_vars, audio_vars, send_vars,
                   main_vars, completed, remote_ok, remote_err>>

\* ------------------------------------------------------ Deduplicating
\* deduplicator.py:173-184
EmptyResult ==
    [top_stories |-> 0, secondary_stories |-> 0, other_stories |-> 0,
     deduplication_summary |->
        [original_story_count |-> 0, deduplicated_story_count |-> 0,
         stories_merged |-> 0]]

\* lengths of (top_stories, secondary_stories, other_stories) in the answers
\* of the model that are considered
DedupShapes == {<<0, 0, 0>>, <<0, 0, 1>>, <<1, 0, 0>>, <<0, 1, 0>>, <<1, 1, 1>>}

\* a categorized result the model can answer for n raw stories
ParsedResults(n) ==
    {[top_stories |-> sh[1], secondary_stories |-> sh[2], other_stories |-> sh[3],
      deduplication_summary |->
         [original_story_count |-> n,
          deduplicated_story_count |-> sh[1] + sh[2] + sh[3],
          stories_merged |-> 0]] : sh \in DedupShapes}

\* What the model call of Deduplicator.process does (deduplicator.py:41-70)
DedupOutcomes == {"api_error", "parse_error", "parsed"}

\* deduplicator.py:33-70  Deduplicator.process
Process_unguarded(n, outcome, parsed) ==
    IF outcome = "parsed" THEN parsed ELSE EmptyResult
Process(n, outcome, parsed) ==
    IF n = 0 THEN EmptyResult
    ELSE IF outcome = "parsed" THEN parsed
    ELSE EmptyResult

\* main.py:177-179, 214-221: after Deduplicating, the audio stage if enabled
AfterDedup_always == pc' = "generate_script"
AfterDedup ==
    IF config.audio_enabled THEN pc' = "generate_script" ELSE pc' = "generate_briefing"

\* main.py:168-179  deduplicator.process returns
DeduplicateReturns_early ==
    /\ pc = "deduplicate"
    /\ \E outcome \in DedupOutcomes, parsed \in ParsedResults(raw_stories) :
          /\ processed_data' = Process(raw_stories, outcome, parsed)
          /\ RetryReturn(processed_data')
          /\ remote_err' = IF raw_stories > 0 /\ outcome = "api_error"
                           THEN remote_err \cup {"deduplicate"} ELSE remote_err
          /\ remote_ok' = IF raw_stories > 0 /\ outcome # "api_error"
                          THEN remote_ok \cup {"deduplicate"} ELSE remote_ok
    /\ IF processed_data'.top_stories + processed_data'.secondary_stories = 0
       THEN pc' = "returned" /\ result' = NoStoriesResult
       ELSE AfterDedup /\ result' = result
    /\ audio_path' = None
    /\ invoked' = invoked \cup {"deduplicate"}
    /\ completed' = completed \cup {"deduplicate"}
    /\ UNCHANGED <<config, script_log, raised, service, fetch_vars, raw_stories, audio_file,
                   send_vars, notified, exit_code>>
DeduplicateReturns ==
    /\ pc = "deduplicate"
    /\ \E outcome \in DedupOutcomes, parsed \in ParsedResults(raw_stories) :
          /\ processed_data' = Process(raw_stories, outcome, parsed)
          /\ RetryReturn(processed_data')
          /\ remote_err' = IF raw_stories > 0 /\ outcome = "api_error"
                           THEN remote_err \cup {"deduplicate"} ELSE remote_err
          /\ remote_ok' = IF raw_stories > 0 /\ outcome # "api_error"
                          THEN remote_ok \cup {"deduplicate"} ELSE remote_ok
    /\ AfterDedup
    /\ audio_path' = None
    /\ invoked' = invoked \cup {"deduplicate"}
    /\ completed' = completed \cup {"deduplicate"}
    /\ UNCHANGED <<config, script_log, raised, service, fetch_vars, raw_stories, audio_file,
                   send_vars, main_vars>>

\* main.py:168-175  deduplicator.process raises: only code outside its try
\* can (deduplicator.py:36-39)
DeduplicateRaises ==
    /\ pc = "deduplicate"
    /\ RetryExcept(Exc("Exception", "deduplicate", NumCalls(rlog) + 1))
    /\ IF Exhausted THEN Propagate(last_exception')
                    ELSE pc' = pc /\ raised' = raised
    /\ invoked' = invoked \cup {"deduplicate"}
    /\ UNCHANGED <<config, script_log, service, fetch_vars, story_vars, audio_vars, send_vars,
                   main_vars, completed, remote_ok, remote_err>>

\* -------------------------------------------------- SynthesizingAudio
AudioFileName == "briefing_audio.mp3"

\* main.py:182-199  ScriptGenerator/TTSClient built, script generated
GenerateScriptOk ==
    /\ pc = "generate_script"
    /\ audio_path' = AudioFileName
    /\ EnterRetry("generate_audio")
    /\ invoked' = invoked \cup {"generate_script"}
    /\ completed' = completed \cup {"generate_script"}
    /\ UNCHANGED <<config, script_log, raised, service, fetch_vars, story_vars, audio_file,
                   send_vars, main_vars, remote_ok, remote_err>>

\* main.py:209-212  the handler of the audio stage: audio_path = None
AudioPathOnFailure_kept(path) == path
AudioPathOnFailure(path) == None

\* main.py:182-196, 209-212  a step before the synthesis raises: caught
GenerateScriptFail ==
    /\ pc = "generate_script"
    /\ audio_path' = AudioPathOnFailure(audio_path)
    /\ pc' = "generate_briefing"
    /\ invoked' = invoked \cup {"generate_script"}
    /\ UNCHANGED <<config, script_log, raised, service, retry_vars, fetch_vars, story_vars,
                   audio_file, send_vars, main_vars, completed, remote_ok, remote_err>>

\* main.py:201-208, tts_client.py:76-91  the synthesis returns the file's path
GenerateAudioOk ==
    /\ pc = "generate_audio"
    /\ RetryReturn(AudioFileName)
    /\ audio_file' = TRUE
    /\ audio_path' = AudioFileName
    /\ pc' = "generate_briefing"
    /\ invoked' = invoked \cup {"generate_audio"}
    /\ completed' = completed \cup {"generate_audio"}
    /\ remote_ok' = remote_ok \cup {"generate_audio"}
    /\ UNCHANGED <<config, script_log, raised, service, fetch_vars, story_vars, send_vars,
                   main_vars, remote_err>>

\* main.py:201-212, tts_client.py:76-82  the synthesis raises; after the last
\* attempt the exception is caught by the handler of line 209
GenerateAudioFail ==
    /\ pc = "generate_audio"
    /\ RetryExcept(Exc("RuntimeError", "generate_audio", NumCalls(rlog) + 1))
    /\ IF Exhausted
       THEN pc' = "generate_briefing" /\ audio_path' = AudioPathOnFailure(audio_path)
       ELSE pc' = pc /\ audio_path' = audio_path
    /\ invoked' = invoked \cup {"generate_audio"}
    /\ remote_err' = remote_err \cup {"generate_audio"}
    /\ UNCHANGED <<config, script_log, raised, service, fetch_vars, story_vars, audio_file,
                   send_vars, main_vars, completed, remote_ok>>

\* ---------------------------------------------------------- Rendering
\* main.py:218-221  generator.generate returns the briefing
GenerateBriefingOk ==
    /\ pc = "generate_briefing"
    /\ briefing' = "briefing"
    /\ EnterRetry("send_email")
    /\ invoked' = invoked \cup {"generate_briefing"}
    /\ completed' = completed \cup {"generate_briefing"}
    /\ UNCHANGED <<config, script_log, raised, service, fetch_vars, story_vars, audio_vars,
                   send_log, main_vars, remote_ok, remote_err>>

\* main.py:218-221  generator.generate raises (template loading or rendering)
GenerateBriefingFail ==
    /\ pc = "generate_briefing"
    /\ Propagate(Exc("TemplateError", "generate_briefing", 1))
    /\ invoked' = invoked \cup {"generate_briefing"}
    /\ UNCHANGED <<config, script_log, service, retry_vars, fetch_vars, story_vars, audio_vars,
                   send_vars, main_vars, completed, remote_ok, remote_err>>

\* ------------------------------------------------------------ Sending
\* email_sender.py:44-46
HasRecipient_any == TRUE
HasRecipient == config.recipient_email # ""

\* main.py:224-231, email_sender.py:40-60  send_briefing returns the sent message
SendEmailOk_again ==
    /\ pc = "send_email"
    /\ service
    /\ HasRecipient
    /\ audio_path # None => audio_file
    /\ send_log' = Append(send_log, [attachment_path |-> audio_path, sent |-> TRUE])
    /\ RetryReturn("message")
    /\ pc' = IF NumCalls(rlog) + 1 < max_attempts THEN "send_email" ELSE "cleanup"
    /\ invoked' = invoked \cup {"send_briefing", "send_email"}
    /\ completed' = completed \cup {"send_briefing", "send_email"}
    /\ remote_ok' = remote_ok \cup {"send_email"}
    /\ UNCHANGED <<config, script_log, raised, service, fetch_vars, story_vars, audio_vars,
                   briefing, main_vars, remote_err>>
SendEmailOk ==
    /\ pc = "send_email"
    /\ service
    /\ HasRecipient
    /\ audio_path # None => audio_file
    /\ send_log' = Append(send_log, [attachment_path |-> audio_path, sent |-> TRUE])
    /\ RetryReturn("message")
    /\ pc' = "cleanup"
    /\ invoked' = invoked \cup {"send_briefing", "send_email"}
    /\ completed' = completed \cup {"send_briefing", "send_email"}
    /\ remote_ok' = remote_ok \cup {"send_email"}
    /\ UNCHANGED <<config, script_log, raised, service, fetch_vars, story_vars, audio_vars,
                   briefing, main_vars, remote_err>>

\* main.py:224-231  send_briefing raises: no recipient (email_sender.py:45-46)
\* or the remote send fails (gmail_client.py:408-410)
SendEmailFail ==
    /\ pc = "send_email"
    /\ IF HasRecipient
       THEN /\ RetryExcept(Exc("HttpError", "send_email", NumCalls(rlog) + 1))
            /\ send_log' = Append(send_log, [attachment_path |-> audio_path, sent |-> FALSE])
            /\ invoked' = invoked \cup {"send_briefing", "send_email"}
            /\ remote_err' = remote_err \cup {"send_email"}
       ELSE /\ RetryExcept(Exc("ValueError", "No recipient email configured",
                               NumCalls(rlog) + 1))
            /\ send_log' = send_log
            /\ invoked' = invoked \cup {"send_briefing"}
            /\ remote_err' = remote_err
    /\ IF Exhausted THEN Propagate(last_exception')
                    ELSE pc' = pc /\ raised' = raised
    /\ UNCHANGED <<config, script_log, service, fetch_vars, story_vars, audio_vars, briefing,
                   main_vars, completed, remote_ok>>

\* ------------------------------------------------------------ Cleanup
\* main.py:256-266
FinalResult ==
    [success |-> TRUE, newsletters_found |-> Len(email_list),
     newsletters_processed |-> Len(newsletters), stories_extracted |-> raw_stories,
     stories_after_dedup |->
        processed_data.top_stories + processed_data.secondary_stories,
     audio_included |-> (audio_path # None), briefing_sent |-> TRUE]

\* main.py:233-266  delete the audio file, return the result
Cleanup ==
    /\ pc = "cleanup"
    /\ audio_file' = IF audio_path # None /\ audio_file THEN FALSE ELSE audio_file
    /\ result' = FinalResult
    /\ pc' = "returned"
    /\ UNCHANGED <<config, script_log, raised, service, retry_vars, fetch_vars, story_vars,
                   audio_path, send_vars, notified, exit_code, hist_vars>>

\* --------------------------------------------------------------- main
\* main.py:284  error_msg: type name, str(e) and the traceback
ErrorMsg_short(e) == [type |-> e.type, message |-> <<e.origin, e.k>>, traceback |-> ""]
ErrorMsg(e) == [type |-> e.type, message |-> <<e.origin, e.k>>, traceback |-> e.origin]

\* main.py:276-281  both branches of `if result["success"]` call sys.exit(0)
ExitCode_warn(res) == IF res.success /\ res.briefing_sent THEN 0 ELSE 1
ExitCode(res) == IF res.success THEN 0 ELSE 0

\* main.py:274-281  run_pipeline returned
ExitSuccess ==
    /\ pc = "returned"
    /\ exit_code' = ExitCode(result)
    /\ pc' = "exit"
    /\ UNCHANGED <<config, script_log, raised, service, retry_vars, fetch_vars, story_vars,
                   audio_vars, send_vars, result, notified, hist_vars>>

\* main.py:283-292  run_pipeline raised; the fresh client authenticates
NotifyAuthenticateOk ==
    /\ pc = "raised"
    /\ notified' = Append(notified, [error_msg |-> ErrorMsg(raised),
                                     authenticated |-> TRUE, sent |-> FALSE])
    /\ pc' = "send_error_notification"
    /\ UNCHANGED <<config, script_log, raised, service, retry_vars, fetch_vars, story_vars,
                   audio_vars, send_vars, result, exit_code, hist_vars>>

\* main.py:283-297  the fresh client's authenticate raises: caught, exit 1
NotifyAuthenticateFail ==
    /\ pc = "raised"
    /\ notified' = Append(notified, [error_msg |-> ErrorMsg(raised),
                                     authenticated |-> FALSE, sent |-> FALSE])
    /\ exit_code' = 1
    /\ pc' = "exit"
    /\ UNCHANGED <<config, script_log, raised, service, retry_vars, fetch_vars, story_vars,
                   audio_vars, send_vars, result, hist_vars>>

\* main.py:292-297, email_sender.py:77-143  the notification is sent; exit 1
NotifySendOk ==
    /\ pc = "send_error_notification"
    /\ HasRecipient
    /\ notified' = [notified EXCEPT ![Len(notified)].sent = TRUE]
    /\ exit_code' = 1
    /\ pc' = "exit"
    /\ UNCHANGED <<config, script_log, raised, service, retry_vars, fetch_vars, story_vars,
                   audio_vars, send_vars, result, hist_vars>>

\* main.py:292-297  send_error_notification raises (no recipient, or the
\* remote send fails): caught, exit 1
NotifySendFail ==
    /\ pc = "send_error_notification"
    /\ exit_code' = 1
    /\ pc' = "exit"
    /\ UNCHANGED <<config, script_log, raised, service, retry_vars, fetch_vars, story_vars,
                   audio_vars, send_vars, result, notified, hist_vars>>

Next ==
    \/ Construct
    \/ AuthenticateOk
    \/ AuthenticateFail
    \/ FetchNewslettersOk
    \/ FetchNewslettersFail
    \/ GetEmailTextOk
    \/ GetEmailTextFail
    \/ ExtractStoriesReturns
    \/ ExtractStoriesRaises
    \/ DeduplicateReturns
    \/ DeduplicateRaises
    \/ GenerateScriptOk
    \/ GenerateScriptFail
    \/ GenerateAudioOk
    \/ GenerateAudioFail
    \/ GenerateBriefingOk
    \/ GenerateBriefingFail
    \/ SendEmailOk
    \/ SendEmailFail
    \/ Cleanup
    \/ ExitSuccess
    \/ NotifyAuthenticateOk
    \/ NotifyAuthenticateFail
    \/ NotifySendOk
    \/ NotifySendFail

Spec == Init /\ [][Next]_vars

\* ------------------------------------------------------------ FetchSpec
\* run_pipeline at main.py:113-117: authenticated, the list stage has just
\* returned a non-empty list on its first attempt
FetchInit ==
    /\ pc = "get_email_text"
    /\ config \in {c \in Configs : c.anthropic_api_key}
    /\ max_attempts = config.max_retry_attempts
    /\ base_delay = config.retry_base_delay
    /\ attempt = 0
    /\ last_exception = NoException
    /\ rlog = <<CallEv(1, TRUE)>>
    /\ email_list \in SeqsUpTo(FromHeaders, MaxMessages) \ {<<>>}
    /\ retval = email_list
    /\ raised = NoException
    /\ service = TRUE
    /\ fetch_i = 1
    /\ fetch_log = <<>>
    /\ newsletters = <<>>
    /\ newsletters_processed = <<>>
    /\ raw_stories = None
    /\ processed_data = None
    /\ audio_path = None
    /\ audio_file = FALSE
    /\ briefing = None
    /\ send_log = <<>>
    /\ result = None
    /\ notified = <<>>
    /\ exit_code = None
    /\ invoked = {"authenticate", "search_newsletters"}
    /\ completed = {"authenticate", "search_newsletters"}
    /\ remote_ok = {"search_newsletters"}
    /\ remote_err = {}
    /\ script_log = <<>>

FetchNext == GetEmailTextOk \/ GetEmailTextFail

FetchSpec == FetchInit /\ [][FetchNext]_vars

\* ======================================================================
\* Properties
\* ======================================================================

RetryOver == pc \in {"func_returned", "func_raised"}

\* C1: for every max_attempts = n >= 1, an operation that fails on every call
\* is invoked exactly n times by retry_with_backoff, which then raises the
\* exception of the n-th (last) invocation itself: while every call so far has
\* failed and fewer than n were made the loop goes on, and the call ends by
\* raising exactly when n calls have failed.
C1_AlwaysFailingRaisesLast ==
    /\ NumCalls(rlog) <= max_attempts
    /\ (NumFailed(rlog) = NumCalls(rlog) /\ NumCalls(rlog) < max_attempts)
          => (pc = "func" /\ raised = NoException)
    /\ pc = "func_raised" =>
          /\ NumCalls(rlog) = max_attempts
          /\ NumFailed(rlog) = max_attempts
          /\ raised = Exc("Exception", "func", max_attempts)
    /\ (NumFailed(rlog) = max_attempts) => pc = "func_raised"

C1_Witness ==
    /\ pc = "func_raised"
    /\ max_attempts >= 3
    /\ NumCalls(rlog) = max_attempts

\* C2 (as claimed): every sleep after the failure of attempt k lasts
\* min(base_delay * 2^(k-1), retry_max_delay), so no sleep exceeds the
\* configured max delay.
C2_DelayCappedByMaxDelay ==
    \A j \in 1..Len(rlog) :
        rlog[j].ev = "sleep" =>
            /\ rlog[j].delay =
                  Min(base_delay * Pow2(rlog[j].k - 1), config.retry_max_delay)
            /\ rlog[j].delay <= config.retry_max_delay

\* C3: retry_with_backoff sleeps exactly once after each failed attempt that
\* is followed by a retry, never after the final attempt nor after a
\* successful one: every sleep stands directly after a failed call and directly
\* before the next call, every failed call that is not the last call is
\* directly followed by a sleep, and a call that ended after f failures has
\* slept min(f, max_attempts - 1) times.
C3_SleepsBetweenAttempts ==
    /\ \A j \in 1..Len(rlog) :
          rlog[j].ev = "sleep" =>
             /\ j > 1
             /\ rlog[j - 1].ev = "call"
             /\ ~rlog[j - 1].ok
             /\ IF j < Len(rlog) THEN rlog[j + 1].ev = "call" ELSE pc = "func"
    /\ \A j \in 1..Len(rlog) :
          (rlog[j].ev = "call" /\ ~rlog[j].ok /\ j < Len(rlog)) =>
             rlog[j + 1].ev = "sleep"
    /\ \A j \in 1..Len(rlog) :
          (rlog[j].ev = "call" /\ rlog[j].ok) => j = Len(rlog)
    /\ RetryOver =>
          NumSleeps(rlog) = Min(NumFailed(rlog), max_attempts - 1)

C3_Witness ==
    /\ pc = "func_returned"
    /\ NumFailed(rlog) = 2
    /\ NumSleeps(rlog) = 2

\* ---------------------------------------------------------- pipeline
RunReturned == pc = "returned" \/ (pc = "exit" /\ raised = NoException)
RunRaised == raised # NoException

AfterListStages ==
    {"get_email_text", "extract_stories", "deduplicate", "generate_script",
     "generate_audio", "generate_briefing", "send_briefing", "send_email"}

\* C4: when search_newsletters yields zero messages, run_pipeline returns
\* success = true and briefing_sent = false, and neither the content fetch
\* nor extraction, deduplication, audio synthesis, rendering or sending is
\* invoked in that run.
C4_NoMessagesEmptyOutcome ==
    ("search_newsletters" \in completed /\ email_list = <<>>) =>
        /\ RunReturned
        /\ result.success
        /\ ~result.briefing_sent
        /\ invoked \cap AfterListStages = {}
        /\ send_log = <<>>
        /\ fetch_log = <<>>

C4_Witness ==
    /\ pc = "returned"
    /\ "search_newsletters" \in completed
    /\ email_list = <<>>
    /\ attempt > 0

FetchLoopOver == email_list # <<>> /\ pc # "get_email_text"

EmptyOutcome ==
    /\ RunReturned
    /\ result.success
    /\ ~result.briefing_sent
    /\ result.message # ""
    /\ invoked \cap {"deduplicate", "generate_script", "generate_audio",
                     "generate_briefing", "send_briefing", "send_email"} = {}
    /\ send_log = <<>>

\* C5: when every content fetch fails, or extraction returns zero stories,
\* run_pipeline returns success = true, briefing_sent = false and a non-empty
\* message; it does not raise, and deduplication, rendering and sending are
\* never invoked in that run.
C5_NothingFetchedOrExtracted ==
    /\ (FetchLoopOver /\ newsletters = <<>>) =>
          (EmptyOutcome /\ "extract_stories" \notin invoked)
    /\ ("extract_stories" \in completed /\ raw_stories = 0) => EmptyOutcome

C5_Witness ==
    /\ pc = "returned"
    /\ "extract_stories" \in completed
    /\ raw_stories = 0
    /\ Len(newsletters) = 1
    /\ Len(email_list) = 2
    /\ "extract_stories" \in remote_ok

C5_WitnessNoContent ==
    /\ pc = "returned"
    /\ Len(email_list) = 2
    /\ newsletters = <<>>

\* ids of the messages whose get_email_text call returned, in call order
RECURSIVE FetchedIds(_)
FetchedIds(log) ==
    IF log = <<>> THEN <<>>
    ELSE IF log[Len(log)].ok
         THEN Append(FetchedIds(SubSeq(log, 1, Len(log) - 1)), log[Len(log)].id)
         ELSE FetchedIds(SubSeq(log, 1, Len(log) - 1))

Range(f) == {f[x] : x \in DOMAIN f}

\* the display name the configuration gives a From header
\* (config.yaml sources a@x -> Alfa, B@x -> Beta; unknown senders keep the header)
ExpectedName(from) ==
    IF from = <<"<", "A", "@", "x", ">">> THEN <<"A", "l", "f", "a">>
    ELSE IF from = <<"b", "@", "x">> THEN <<"B", "e", "t", "a">>
    ELSE from

\* C6: whatever subset of the content fetches raises, the run does not
\* abort: every listed message is fetched once, in list order; the
\* newsletters handed to extraction are exactly the fetched messages, in list
\* order; the processed-source list holds exactly the source names of the
\* fetched messages.
C6_PartialFetchFailure ==
    /\ \A j \in 1..Len(fetch_log) : fetch_log[j].id = j
    /\ Len(fetch_log) <= Len(email_list)
    /\ pc = "get_email_text" => Len(fetch_log) = fetch_i - 1
    /\ (FetchLoopOver /\ "search_newsletters" \in completed) =>
          Len(fetch_log) = Len(email_list)
    /\ (FetchLoopOver /\ newsletters # <<>>) =>
          (pc # "returned" \/ "extract_stories" \in invoked)
    /\ Len(newsletters) = Len(FetchedIds(fetch_log))
    /\ \A j \in 1..Len(newsletters) :
          /\ newsletters[j].id = FetchedIds(fetch_log)[j]
          /\ newsletters[j].from = email_list[newsletters[j].id]
    /\ Range(newsletters_processed) =
          {ExpectedName(email_list[id]) : id \in Range(FetchedIds(fetch_log))}
    /\ raised.origin # "get_email_text"

C6_Witness ==
    /\ pc = "extract_stories"
    /\ Len(email_list) = 3
    /\ email_list[1] # email_list[2]
    /\ email_list[2] # email_list[3]
    /\ fetch_log = <<[id |-> 1, ok |-> TRUE], [id |-> 2, ok |-> FALSE],
                     [id |-> 3, ok |-> TRUE]>>
    /\ Len(newsletters) = 2

\* the audio stage was entered and is over without a synthesized file:
\* a step before the synthesis raised, or the synthesis failed on every attempt
AudioFailed ==
    /\ config.audio_enabled
    /\ "generate_script" \in invoked
    /\ pc \notin {"generate_script", "generate_audio"}
    /\ "generate_audio" \notin completed

\* C7 (as claimed): with audio enabled, once the audio stage has failed the
\* run goes on to rendering and sending, every send carries no attachment, and
\* run_pipeline returns success = true, briefing_sent = true and
\* audio_included = false: the run never ends by raising.
C7_AudioFailureStillReturns ==
    AudioFailed =>
        /\ audio_path = None
        /\ \A j \in 1..Len(send_log) : send_log[j].attachment_path = None
        /\ ~RunRaised
        /\ RunReturned =>
              (result.success /\ result.briefing_sent /\ ~result.audio_included)

\* C7 (amended): with audio enabled, once the audio stage has failed the
\* exception is not propagated and the run goes on to rendering; every send
\* attempt carries no attachment; the run raises only if rendering raises or
\* the send fails on every attempt, and otherwise run_pipeline returns
\* success = true, briefing_sent = true and audio_included = false.
C7_AudioFailureDegrades ==
    AudioFailed =>
        /\ audio_path = None
        /\ "generate_briefing" \in invoked \/ pc = "generate_briefing"
        /\ \A j \in 1..Len(send_log) : send_log[j].attachment_path = None
        /\ RunRaised =>
              \/ raised.origin = "generate_briefing"
              \/ (/\ raised.origin \in {"send_email", "No recipient email configured"}
                  /\ raised.k = config.max_retry_attempts
                  /\ "send_briefing" \notin completed)
        /\ ("send_briefing" \in completed) => ~RunRaised
        /\ RunReturned =>
              /\ result.success
              /\ result.briefing_sent
              /\ ~result.audio_included
              /\ send_log # <<>>
              /\ send_log[Len(send_log)].sent

C7_Witness ==
    /\ AudioFailed
    /\ pc = "returned"
    /\ "generate_audio" \in invoked
    /\ config.max_retry_attempts = 2
    /\ Len(send_log) = 2

WrappedStages ==
    {"fetch_newsletters", "extract_stories", "deduplicate", "generate_audio",
     "send_email"}

\* this step is an invocation of the stage's collaborator that raised,
\* through retry_with_backoff
WrappedCallFails(stage) ==
    /\ pc = stage
    /\ Len(rlog') > Len(rlog)
    /\ ~rlog'[Len(rlog) + 1].ok

\* this step is the invocation of authenticate by run_pipeline, and it raised
AuthenticateCallFails ==
    /\ pc = "authenticate"
    /\ "authenticate" \notin completed'

PersistentRemoteError(stage) == stage \in remote_err \ remote_ok

\* C9 (as claimed): a network/API error of the remote call of a
\* backoff-wrapped stage (listing, extraction, deduplication, sending) that
\* persists ends the run as a failure: the run never returns a result (success
\* or empty outcome) and never exits with code 0 when the remote call of one
\* of these stages has raised every time.
C9_PersistentRemoteErrorFails ==
    \A stage \in {"search_newsletters", "extract_stories", "deduplicate", "send_email"} :
        PersistentRemoteError(stage) => (~RunReturned /\ pc # "cleanup")

\* C10: whenever run_pipeline raises, main attempts exactly one error
\* notification (fresh client, authenticate, then send_error_notification)
\* carrying the error type, message and traceback, and exits with code 1, also
\* when authenticating or sending the notification raises.
C10_FailureNotifiedOnce ==
    /\ pc = "raised" => (RunRaised /\ notified = <<>>)
    /\ pc = "send_error_notification" =>
          (RunRaised /\ Len(notified) = 1 /\ notified[1].authenticated
             /\ ~notified[1].sent)
    /\ (pc = "exit" /\ RunRaised) =>
          /\ exit_code = 1
          /\ Len(notified) = 1
          /\ notified[1].error_msg.type = raised.type
          /\ notified[1].error_msg.message = <<raised.origin, raised.k>>
          /\ notified[1].error_msg.traceback = raised.origin
          /\ notified[1].sent => (notified[1].authenticated /\ HasRecipient)
    /\ RunRaised => pc \in {"raised", "send_error_notification", "exit"}
    /\ ~RunRaised => notified = <<>>

C10_Witness ==
    /\ pc = "exit"
    /\ raised.origin = "send_email"
    /\ Len(notified) = 1
    /\ notified[1].authenticated
    /\ ~notified[1].sent
    /\ HasRecipient

\* --------------------------------------------------------------- exit code
\* the results run_pipeline can return without a briefing (main.py:102-163)
EmptyOutcomeResults == {NoNewslettersResult, FetchFailedResult, NoStoriesResult}

\* C11: the process exits with code 0 exactly when run_pipeline returned a
\* result (the full success or one of the three empty outcomes) and with code
\* 1 exactly when run_pipeline raised; on every exit-0 path no error
\* notification is attempted or sent.
C11_ExitCodeMatchesOutcome ==
    /\ pc = "exit" =>
          /\ exit_code \in {0, 1}
          /\ (exit_code = 0) <=> ~RunRaised
          /\ (exit_code = 1) <=> RunRaised
          /\ exit_code = 0 =>
                /\ notified = <<>>
                /\ result.success
                /\ IF result.briefing_sent
                   THEN result = FinalResult
                   ELSE result \in EmptyOutcomeResults
          /\ exit_code = 1 => result = None
    /\ pc = "returned" => (~RunRaised /\ notified = <<>>)
    /\ pc # "exit" => exit_code = None

C11_Witness ==
    /\ pc = "exit"
    /\ exit_code = 0
    /\ ~result.briefing_sent
    /\ result = NoStoriesResult
    /\ "extract_stories" \in remote_err

\* --------------------------------------------------------- audio artifact
\* C12 (as claimed): no generated audio artifact outlives the run: in every
\* terminal state of the process, after a returned run as after a raised one
\* (the send exhausted its retries, or rendering raised), the file written by
\* the synthesis stage does not exist any more.
C12_NoAudioFileOutlivesRun ==
    pc = "exit" => ~audio_file

\* the stages of the audio branch: ScriptGenerator()/TTSClient() and the
\* script (main.py:182-199), and the synthesis (main.py:201-208)
AudioStages == {"generate_script", "generate_audio"}

\* C13: audio synthesis is invoked only when config.audio_enabled is true;
\* every send attempt of the briefing carries an attachment if and only if
\* audio is enabled and the synthesis returned in this run; with audio
\* disabled the synthesis collaborator is never constructed or called, no
\* audio file is written and no send carries an attachment.
C13_AttachmentIffSynthesized ==
    /\ invoked \cap AudioStages # {} => config.audio_enabled
    /\ pc \in AudioStages => config.audio_enabled
    /\ \A j \in 1..Len(send_log) :
          (send_log[j].attachment_path # None)
             <=> (config.audio_enabled /\ "generate_audio" \in completed)
    /\ \A j \in 1..Len(send_log) :
          send_log[j].attachment_path \in {None, AudioFileName}
    /\ ~config.audio_enabled =>
          /\ audio_path = None
          /\ ~audio_file
          /\ \A j \in 1..Len(send_log) : send_log[j].attachment_path = None

C13_Witness ==
    /\ config.audio_enabled
    /\ "generate_audio" \in completed
    /\ "generate_audio" \in remote_err
    /\ Len(send_log) = 2
    /\ ~send_log[1].sent
    /\ send_log[2].sent
    /\ send_log[2].attachment_path = AudioFileName

\* ------------------------------------------------------------ stage order
\* position of a program point in the order Authenticating, FetchingList,
\* FetchingContent, Extracting, Deduplicating, SynthesizingAudio (script, then
\* synthesis), Rendering, Sending, Cleanup; the run is over at 11
PcRank(p) ==
    CASE p = "construct" -> 0
      [] p = "authenticate" -> 1
      [] p = "fetch_newsletters" -> 2
      [] p = "get_email_text" -> 3
      [] p = "extract_stories" -> 4
      [] p = "deduplicate" -> 5
      [] p = "generate_script" -> 6
      [] p = "generate_audio" -> 7
      [] p = "generate_briefing" -> 8
      [] p = "send_email" -> 9
      [] p = "cleanup" -> 10
      [] OTHER -> 11

\* the collaborator calls made at a program point
StageCalls(p) ==
    CASE p = "authenticate" -> {"authenticate"}
      [] p = "fetch_newsletters" -> {"search_newsletters"}
      [] p = "get_email_text" -> {"get_email_text"}
      [] p = "extract_stories" -> {"extract_stories"}
      [] p = "deduplicate" -> {"deduplicate"}
      [] p = "generate_script" -> {"generate_script"}
      [] p = "generate_audio" -> {"generate_audio"}
      [] p = "generate_briefing" -> {"generate_briefing"}
      [] p = "send_email" -> {"send_briefing", "send_email"}
      [] OTHER -> {}

\* the stage before the one at program point p is over
PreviousStageOver(p) ==
    CASE p = "fetch_newsletters" -> "authenticate" \in completed
      [] p = "get_email_text" ->
            "search_newsletters" \in completed /\ email_list # <<>>
      [] p = "extract_stories" ->
            /\ Len(fetch_log) = Len(email_list)
            /\ "get_email_text" \in completed
      [] p = "deduplicate" -> "extract_stories" \in completed
      [] p = "generate_script" -> "deduplicate" \in completed
      [] p = "generate_audio" -> "generate_script" \in completed
      [] p = "generate_briefing" ->
            /\ "deduplicate" \in completed
            /\ config.audio_enabled => "generate_script" \in invoked
      [] p = "send_email" -> "generate_briefing" \in completed
      [] p = "cleanup" -> "send_briefing" \in completed
      [] OTHER -> TRUE

PipelinePoints ==
    {"authenticate", "fetch_newsletters", "get_email_text", "extract_stories",
     "deduplicate", "generate_script", "generate_audio", "generate_briefing",
     "send_email", "cleanup"}

\* C14: in every run the stages execute in the order Authenticating,
\* FetchingList, FetchingContent, Extracting, Deduplicating, (optional)
\* SynthesizingAudio, Rendering, Sending, Cleanup: a stage's collaborator is
\* invoked only once the previous stage is over, the program never goes back
\* to an earlier stage and never invokes the collaborator of an earlier stage
\* again, and the send is invoked only when deduplication has returned a
\* result in this run.
C14_StagesInStrictOrder ==
    /\ [](/\ PreviousStageOver(pc)
          /\ \A p \in PipelinePoints :
                (StageCalls(p) \cap invoked # {}) =>
                    (PcRank(p) <= PcRank(pc) /\ (p # pc => PreviousStageOver(p)))
          /\ completed \subseteq invoked
          /\ "send_briefing" \in invoked =>
                ("deduplicate" \in completed /\ "generate_briefing" \in completed))
    /\ [][ /\ PcRank(pc') >= PcRank(pc)
           /\ invoked' \ invoked \subseteq StageCalls(pc)
           /\ completed' \ completed \subseteq StageCalls(pc) ]_vars

C14_Witness ==
    /\ pc = "cleanup"
    /\ config.audio_enabled
    /\ "generate_audio" \in completed
    /\ Len(fetch_log) = 2
    /\ Len(newsletters) = 1
    /\ Len(send_log) = 2

\* ------------------------------------------------------ missing recipient
NoRecipientConfigured == config.recipient_email = ""

\* C15 (as claimed): when no recipient is configured the run terminates in
\* Failed: the process never exits with code 0, no briefing is handed to the
\* mailbox send call, one error notification is attempted and the exit code
\* is 1.
C15_MissingRecipientFails ==
    (NoRecipientConfigured /\ pc = "exit") =>
        /\ RunRaised
        /\ exit_code = 1
        /\ send_log = <<>>
        /\ Len(notified) = 1

\* C15 (amended): the recipient is read only by the send. When no recipient is
\* configured no briefing is ever handed to the mailbox send call; a run that
\* reaches Sending fails there on every attempt with 'No recipient email
\* configured', terminates in Failed, attempts one error notification (which
\* is not sent either) and exits with code 1; a run that ends before Sending
\* ends as it would with a recipient: an empty outcome exits with code 0, an
\* earlier failure with code 1.
C15_MissingRecipientFailsAtSend ==
    NoRecipientConfigured =>
        /\ send_log = <<>>
        /\ "send_email" \notin invoked
        /\ "send_briefing" \notin completed
        /\ pc # "cleanup"
        /\ (pc = "send_email" /\ rlog # <<>>) =>
              last_exception.origin = "No recipient email configured"
        /\ ("send_briefing" \in invoked /\ pc # "send_email") =>
              /\ RunRaised
              /\ raised.type = "ValueError"
              /\ raised.origin = "No recipient email configured"
              /\ raised.k = config.max_retry_attempts
        /\ (pc = "exit" /\ RunRaised) =>
              /\ exit_code = 1
              /\ Len(notified) = 1
              /\ ~notified[1].sent
        /\ (pc = "exit" /\ ~RunRaised) =>
              /\ exit_code = 0
              /\ "send_briefing" \notin invoked
              /\ result \in EmptyOutcomeResults

C15_Witness ==
    /\ NoRecipientConfigured
    /\ pc = "exit"
    /\ "send_briefing" \in invoked
    /\ config.max_retry_attempts = 2
    /\ raised.k = 2
    /\ notified[1].authenticated

\* ======================================================================
\* GmailSpec: one GmailClient object, its methods called in any order
\* ======================================================================

\* gmail_client.py:40-45  GmailClient(): self.service = None
GmailInit ==
    /\ pc = "gmail_client"
    /\ config = NoConfig
    /\ max_attempts = 0
    /\ base_delay = 0
    /\ attempt = 0
    /\ last_exception = NoException
    /\ rlog = <<>>
    /\ retval = None
    /\ PipelineIdle

client_rest == <<config, script_log, pc, max_attempts, base_delay, attempt, last_exception, rlog,
                 fetch_vars, story_vars, audio_vars, send_vars, main_vars>>

\* the methods that use the mailbox service
MailboxMethods == {"search_newsletters", "get_email_text", "send_email"}

\* gmail_client.py:164, 239, 358   if not self.service
NotAuthenticated_never(svc) == FALSE
NotAuthenticated(svc) == ~svc

\* gmail_client.py:165, 240, 359
NotAuthenticatedError == Exc("RuntimeError", "Not authenticated", 1)

\* gmail_client.py:48-93  authenticate returns: self.service is built
ClientAuthenticateOk ==
    /\ pc = "gmail_client"
    /\ service' = TRUE
    /\ retval' = "authenticate"
    /\ raised' = NoException
    /\ invoked' = invoked \cup {"authenticate"}
    /\ completed' = completed \cup {"authenticate"}
    /\ UNCHANGED <<client_rest, remote_ok, remote_err>>

\* gmail_client.py:73-74, 79-87  authenticate raises before line 92:
\* self.service keeps its value
ClientAuthenticateFail ==
    /\ pc = "gmail_client"
    /\ retval' = "authenticate"
    /\ raised' = Exc("RuntimeError", "authenticate", 1)
    /\ invoked' = invoked \cup {"authenticate"}
    /\ UNCHANGED <<client_rest, service, completed, remote_ok, remote_err>>

\* gmail_client.py:164-165, 239-240, 358-359  the method raises at its first
\* statement
ClientRefuses(m) ==
    /\ NotAuthenticated(service)
    /\ retval' = m
    /\ raised' = NotAuthenticatedError
    /\ invoked' = invoked \cup {m}
    /\ UNCHANGED <<client_rest, service, completed, remote_ok, remote_err>>

\* the method's remote call (gmail_client.py:174-183, 243-248, 408-410)
\* returns, and so does the method
ClientRemoteOk(m) ==
    /\ ~NotAuthenticated(service)
    /\ retval' = m
    /\ raised' = NoException
    /\ invoked' = invoked \cup {m}
    /\ completed' = completed \cup {m}
    /\ remote_ok' = remote_ok \cup {m}
    /\ UNCHANGED <<client_rest, service, remote_err>>

\* the method's remote call raises
ClientRemoteFail(m) ==
    /\ ~NotAuthenticated(service)
    /\ retval' = m
    /\ raised' = Exc("HttpError", m, 1)
    /\ invoked' = invoked \cup {m}
    /\ remote_err' = remote_err \cup {m}
    /\ UNCHANGED <<client_rest, service, completed, remote_ok>>

\* gmail_client.py:147-227
ClientSearchNewsletters ==
    /\ pc = "gmail_client"
    /\ \/ ClientRefuses("search_newsletters")
       \/ ClientRemoteOk("search_newsletters")
       \/ ClientRemoteFail("search_newsletters")

\* gmail_client.py:229-265
ClientGetEmailText ==
    /\ pc = "gmail_client"
    /\ \/ ClientRefuses("get_email_text")
       \/ ClientRemoteOk("get_email_text")
       \/ ClientRemoteFail("get_email_text")

\* gmail_client.py:373-376, 384-385  the attachment cannot be read: open()
\* raises before the remote send
ClientAttachmentUnreadable ==
    /\ ~NotAuthenticated(service)
    /\ retval' = "send_email"
    /\ raised' = Exc("FileNotFoundError", "open", 1)
    /\ invoked' = invoked \cup {"send_email"}
    /\ UNCHANGED <<client_rest, service, completed, remote_ok, remote_err>>

\* gmail_client.py:337-413
ClientSendEmail ==
    /\ pc = "gmail_client"
    /\ \/ ClientRefuses("send_email")
       \/ ClientAttachmentUnreadable
       \/ ClientRemoteOk("send_email")
       \/ ClientRemoteFail("send_email")

GmailNext ==
    \/ ClientAuthenticateOk
    \/ ClientAuthenticateFail
    \/ ClientSearchNewsletters
    \/ ClientGetEmailText
    \/ ClientSendEmail

GmailSpec == GmailInit /\ [][GmailNext]_vars

\* C16: on a GmailClient on which authenticate has not completed
\* successfully, each call of search_newsletters, get_email_text and
\* send_email raises the 'Not authenticated' error and makes no remote call;
\* once authenticate has completed, no call of them raises that error.
C16_NotAuthenticatedGuard ==
    /\ []("authenticate" \notin completed =>
             (completed = {} /\ remote_ok = {} /\ remote_err = {}))
    /\ [][ \A m \in MailboxMethods :
              retval' = m =>
                 IF "authenticate" \notin completed
                 THEN /\ raised' = NotAuthenticatedError
                      /\ remote_ok' = remote_ok
                      /\ remote_err' = remote_err
                      /\ completed' = completed
                 ELSE raised' # NotAuthenticatedError ]_vars

C16_Witness ==
    /\ pc = "gmail_client"
    /\ retval = "send_email"
    /\ raised = NotAuthenticatedError
    /\ invoked = MailboxMethods \cup {"authenticate"}
    /\ completed = {}

\* ======================================================================
\* DedupSpec: one call of Deduplicator.process on an arbitrary story list
\* ======================================================================

\* a Deduplicator was constructed (deduplicator.py:15-21: the API key is set)
\* and process is called with a list of 0..MaxRaw stories
DedupInit ==
    /\ pc = "process"
    /\ config \in {c \in Configs : c.anthropic_api_key}
    /\ raw_stories \in 0..MaxRaw
    /\ max_attempts = 0
    /\ base_delay = 0
    /\ attempt = 0
    /\ last_exception = NoException
    /\ rlog = <<>>
    /\ retval = None
    /\ raised = NoException
    /\ service = FALSE
    /\ email_list = <<>>
    /\ fetch_i = 1
    /\ fetch_log = <<>>
    /\ newsletters = <<>>
    /\ newsletters_processed = <<>>
    /\ processed_data = None
    /\ audio_path = None
    /\ audio_file = FALSE
    /\ briefing = None
    /\ send_log = <<>>
    /\ result = None
    /\ notified = <<>>
    /\ exit_code = None
    /\ invoked = {}
    /\ completed = {}
    /\ remote_ok = {}
    /\ remote_err = {}
    /\ script_log = <<>>

dedup_rest == <<config, script_log, max_attempts, base_delay, attempt, last_exception, rlog,
                service, fetch_vars, raw_stories, audio_vars, send_vars, main_vars>>

\* deduplicator.py:33-70  process returns; retval records what the model call
\* did ("no_call" when line 33-34 returned before it)
ProcessReturns ==
    /\ pc = "process"
    /\ \E outcome \in DedupOutcomes, parsed \in ParsedResults(raw_stories) :
          /\ processed_data' = Process(raw_stories, outcome, parsed)
          /\ retval' = IF raw_stories = 0 THEN "no_call" ELSE outcome
          /\ remote_err' = IF raw_stories > 0 /\ outcome = "api_error"
                           THEN remote_err \cup {"deduplicate"} ELSE remote_err
          /\ remote_ok' = IF raw_stories > 0 /\ outcome # "api_error"
                          THEN remote_ok \cup {"deduplicate"} ELSE remote_ok
    /\ pc' = "process_returned"
    /\ invoked' = invoked \cup {"deduplicate"}
    /\ completed' = completed \cup {"deduplicate"}
    /\ UNCHANGED <<dedup_rest, raised>>

\* deduplicator.py:36-39  building the prompts raises, outside the try
ProcessRaises ==
    /\ pc = "process"
    /\ raw_stories > 0
    /\ raised' = Exc("TypeError", "_build_user_prompt", 1)
    /\ pc' = "process_raised"
    /\ invoked' = invoked \cup {"deduplicate"}
    /\ UNCHANGED <<dedup_rest, retval, processed_data, completed, remote_ok, remote_err>>

DedupNext == ProcessReturns \/ ProcessRaises

DedupSpec == DedupInit /\ [][DedupNext]_vars

\* all three lists empty and all three summary counts 0
EmptyShaped(r) ==
    /\ r.top_stories = 0
    /\ r.secondary_stories = 0
    /\ r.other_stories = 0
    /\ r.deduplication_summary.original_story_count = 0
    /\ r.deduplication_summary.deduplicated_story_count = 0
    /\ r.deduplication_summary.stories_merged = 0

\* C17: Deduplicator.process returns the empty-shaped result when given an
\* empty story list, without calling the model, and also when the model's
\* response cannot be parsed; in neither case does an exception (a parse
\* error in particular) reach the caller.
C17_EmptyShapedResult ==
    /\ raw_stories = 0 =>
          /\ pc \in {"process", "process_returned"}
          /\ remote_ok = {} /\ remote_err = {}
          /\ pc = "process_returned" => (retval = "no_call" /\ EmptyShaped(processed_data))
    /\ (pc = "process_returned" /\ retval = "parse_error") =>
          /\ EmptyShaped(processed_data)
          /\ raised = NoException
    /\ pc = "process_raised" => retval = None
    /\ raised.type # "JSONDecodeError"

C17_Witness ==
    /\ pc = "process_returned"
    /\ raw_stories = 2
    /\ retval = "parse_error"
    /\ "deduplicate" \in remote_ok

\* ======================================================================
\* ScriptSpec: one call of ScriptGenerator.generate (audio/script_generator.py)
\* ======================================================================
\* A text is a sequence of pieces. The pieces of variable content (headlines,
\* summaries, names) and of separators are single characters, so that join,
\* split, strip and endswith are computed; a sentence literal of the code is
\* one piece (none contains a newline).

\* Python sep.join(parts)
RECURSIVE Join(_, _)
Join(sep, parts) ==
    IF parts = <<>> THEN <<>>
    ELSE IF Len(parts) = 1 THEN parts[1]
    ELSE parts[1] \o sep \o Join(sep, Tail(parts))

\* Python s[:n]
Take(s, n) == SubSeq(s, 1, Min(n, Len(s)))

IsSpace(c) == c \in {" ", "\n", "\t"}

RECURSIVE RStrip(_)
RStrip(s) ==
    IF s # <<>> /\ IsSpace(s[Len(s)]) THEN RStrip(SubSeq(s, 1, Len(s) - 1)) ELSE s

RECURSIVE LStrip(_)
LStrip(s) == IF s # <<>> /\ IsSpace(s[1]) THEN LStrip(Tail(s)) ELSE s

\* Python s.strip()
Strip(s) == LStrip(RStrip(s))

\* Python s.endswith(".")
EndsWithPeriod(s) == s # <<>> /\ s[Len(s)] = "."

\* Python s.split(sep)[0]
SplitFirst(s, sep) ==
    LET hits == {k \in 1..(Len(s) - Len(sep) + 1) :
                    \A j \in 1..Len(sep) : s[k + j - 1] = sep[j]}
    IN  IF hits = {} THEN s ELSE SubSeq(s, 1, MinOf(hits) - 1)

BlankLine == <<"\n", "\n">>

\* script_generator.py:51-56
generate_intro(date_spoken, story_count) ==
    <<"Good morning. Here's your AI news briefing for ", date_spoken, ". ",
      "Today I have ", ToString(story_count),
      " top stories for you, plus a roundup of other notable developments.">>

\* script_generator.py:65-68  the lines of the first n stories
RECURSIVE HeadlineLines(_, _)
HeadlineLines(stories, n) ==
    IF n = 0 THEN <<>>
    ELSE HeadlineLines(stories, n - 1)
         \o (IF stories[n].headline # <<>>
             THEN << stories[n].headline \o <<".">> >> ELSE <<>>)

\* script_generator.py:58-70
generate_executive_summary(top_stories) ==
    IF top_stories = <<>> THEN <<>>
    ELSE Join(<<" ">>,
              << <<"First, a quick overview of today's top headlines.">> >>
              \o HeadlineLines(Take(top_stories, 5), Len(Take(top_stories, 5))))

\* script_generator.py:80-106  the text of the i-th top story
TopStoryText_finally(top_stories, i) ==
    LET story == top_stories[i]
        intro == IF i = Len(top_stories)
                 THEN <<"And finally in our top stories:", " ">>
                 ELSE IF i = 1 THEN <<"Our top story today:", " ">>
                      ELSE <<"Next up:", " ">>
        t1 == intro \o story.headline \o <<".", " ">>
        t2 == IF story.summary # <<>> THEN t1 \o story.summary \o <<" ">> ELSE t1
        t3 == IF story.why_it_matters # <<>>
              THEN t2 \o <<"Why this matters:", " ">> \o story.why_it_matters \o <<" ">>
              ELSE t2
        t4 == IF story.mention_count > 1 /\ story.sources # <<>>
              THEN t3 \o <<"This story was covered by", " ",
                           ToString(story.mention_count), " ",
                           "newsletters including", " ">>
                      \o story.sources[1] \o <<".">>
              ELSE t3
    IN  Strip(t4)
TopStoryText(top_stories, i) ==
    LET story == top_stories[i]
        intro == IF i = 1 THEN <<"Our top story today:", " ">>
                 ELSE IF i = Len(top_stories)
                      THEN <<"And finally in our top stories:", " ">>
                      ELSE <<"Next up:", " ">>
        t1 == intro \o story.headline \o <<".", " ">>
        t2 == IF story.summary # <<>> THEN t1 \o story.summary \o <<" ">> ELSE t1
        t3 == IF story.why_it_matters # <<>>
              THEN t2 \o <<"Why this matters:", " ">> \o story.why_it_matters \o <<" ">>
              ELSE t2
        t4 == IF story.mention_count > 1 /\ story.sources # <<>>
              THEN t3 \o <<"This story was covered by", " ",
                           ToString(story.mention_count), " ",
                           "newsletters including", " ">>
                      \o story.sources[1] \o <<".">>
              ELSE t3
    IN  Strip(t4)

\* script_generator.py:72-108
generate_top_stories(top_stories) ==
    IF top_stories = <<>> THEN <<>>
    ELSE Join(BlankLine,
              << <<"Now, let's dive into the details.">> >>
              \o [i \in 1..Len(top_stories) |-> TopStoryText(top_stories, i)])

\* script_generator.py:125  summary.split(". ")[0]
FirstSentence_whole(summary) == summary
FirstSentence(summary) == SplitFirst(summary, <<".", " ">>)

\* script_generator.py:120-130  the line of one secondary story, if any
SecondaryLine(story) ==
    IF story.headline # <<>> /\ story.summary # <<>>
    THEN LET first_sentence == FirstSentence(story.summary)
             terminated == IF ~EndsWithPeriod(first_sentence)
                           THEN first_sentence \o <<".">> ELSE first_sentence
         IN  << story.headline \o <<".", " ">> \o terminated >>
    ELSE IF story.headline # <<>>
         THEN << story.headline \o <<".">> >>
         ELSE <<>>

RECURSIVE SecondaryLines(_, _)
SecondaryLines(stories, n) ==
    IF n = 0 THEN <<>>
    ELSE SecondaryLines(stories, n - 1) \o SecondaryLine(stories[n])

\* script_generator.py:110-132
generate_secondary_stories(secondary_stories) ==
    IF secondary_stories = <<>> THEN <<>>
    ELSE Join(<<" ">>,
              << <<"Now for a quick roundup of other stories worth knowing about.">> >>
              \o SecondaryLines(secondary_stories, Len(secondary_stories)))

VariousSources == <<"various sources">>

\* script_generator.py:136-140  source_text
OutroSources_plain(names) == Join(<<",", " ">>, names)
OutroSources(names) ==
    IF Len(names) > 1
    THEN Join(<<",", " ">>, SubSeq(names, 1, Len(names) - 1))
         \o <<",", " ", "a", "n", "d", " ">> \o names[Len(names)]
    ELSE IF names # <<>> THEN names[1] ELSE VariousSources

\* script_generator.py:134-146
generate_outro(names) ==
    <<"That's your AI briefing for today. ", "This summary was compiled from ">>
    \o OutroSources(names)
    \o <<". ", "Have a great day, and I'll see you tomorrow.">>

\* script_generator.py:31-47  the list `sections`
Sections(data, names, date_spoken) ==
    << generate_intro(date_spoken, Len(data.top_stories)),
       generate_executive_summary(data.top_stories),
       generate_top_stories(data.top_stories) >>
    \o (IF data.secondary_stories # <<>>
        THEN << generate_secondary_stories(data.secondary_stories) >> ELSE <<>>)
    \o << generate_outro(names) >>

\* script_generator.py:10-49
generate(data, names, date_spoken) == Join(BlankLine, Sections(data, names, date_spoken))

\* the display names of the processed newsletters (config.py:58-64)
SourceNames == { <<"A", "l", "f", "a">>, <<"B", "e", "t", "a">>, <<"c", "@", "y">> }

\* newsletters_processed holds no name twice (main.py:125-126)
SourceLists ==
    {s \in SeqsUpTo(SourceNames, MaxSources) :
        \A i, j \in 1..Len(s) : i # j => s[i] # s[j]}

\* summaries of secondary stories: none, without and with a final period,
\* two and three sentences, a doubled period, a leading separator
Summaries ==
    { <<>>,
      <<"F", "o", "o">>,
      <<"F", "o", "o", ".">>,
      <<"F", "o", "o", ".", " ", "B", "a", "r", ".">>,
      <<"F", "o", "o", ".", ".", " ", "B">>,
      <<".", " ", "B">>,
      <<"a", ".", " ", "b", ".", " ", "c">> }

\* secondary stories as the model's JSON gives them (a missing key reads as "")
SecondaryStories ==
    {[headline |-> <<"H">>, summary |-> s] : s \in Summaries}
    \cup {[headline |-> <<>>, summary |-> <<"F", "o", "o">>]}

TopStories ==
    { [headline |-> <<"T">>, summary |-> <<"S", ".">>, why_it_matters |-> <<"W", ".">>,
       sources |-> << <<"A", "l", "f", "a">>, <<"B", "e", "t", "a">> >>, mention_count |-> 2],
      [headline |-> <<"U">>, summary |-> <<>>, why_it_matters |-> <<>>,
       sources |-> <<>>, mention_count |-> 1],
      [headline |-> <<>>, summary |-> <<"S", " ">>, why_it_matters |-> <<>>,
       sources |-> << <<"c", "@", "y">> >>, mention_count |-> 1] }

\* script_generator.py:25-26  today.strftime("%A, %B %d")
DatesSpoken == {"Monday, January 05", "Tuesday, November 03"}

\* script_generator.py:25  datetime.now(): the clock readings considered, two
\* on the first day and one on the second
Instants == {[day |-> 1, hour |-> 6], [day |-> 1, hour |-> 18], [day |-> 2, hour |-> 6]}

\* script_generator.py:26  today.strftime("%A, %B %d"): the time of day is dropped
strftime_clock(now) == ToString(now)
strftime_spoken(now) ==
    IF now.day = 1 THEN "Monday, January 05" ELSE "Tuesday, November 03"

\* main.py:180-194  the audio stage calls script_gen.generate(processed_data,
\* newsletters_processed); here processed_data holds the story lists
ScriptInit ==
    /\ pc = "generate"
    /\ config = [NoConfig EXCEPT !.audio_enabled = TRUE, !.anthropic_api_key = TRUE]
    /\ processed_data \in [top_stories : SeqsUpTo(TopStories, MaxTop),
                           secondary_stories : SeqsUpTo(SecondaryStories, MaxSecondary)]
    /\ newsletters_processed \in SourceLists
    /\ max_attempts = 0
    /\ base_delay = 0
    /\ attempt = 0
    /\ last_exception = NoException
    /\ rlog = <<>>
    /\ retval = None
    /\ raised = NoException
    /\ service = TRUE
    /\ email_list = <<>>
    /\ fetch_i = 1
    /\ fetch_log = <<>>
    /\ newsletters = <<>>
    /\ raw_stories = None
    /\ audio_path = None
    /\ audio_file = FALSE
    /\ briefing = None
    /\ send_log = <<>>
    /\ result = None
    /\ notified = <<>>
    /\ exit_code = None
    /\ invoked = {}
    /\ completed = {}
    /\ remote_ok = {}
    /\ remote_err = {}
    /\ script_log = <<>>

\* script_generator.py:10-49  generate returns the script (retval); the date
\* is read from the clock inside generate
GenerateScript ==
    /\ pc = "generate"
    /\ \E now \in Instants :
          /\ retval' = generate(processed_data, newsletters_processed,
                                strftime_spoken(now))
          /\ script_log' = Append(script_log, [now |-> now, script |-> retval'])
    /\ pc' = "script_returned"
    /\ invoked' = invoked \cup {"generate_script"}
    /\ completed' = completed \cup {"generate_script"}
    /\ UNCHANGED <<config, raised, service, max_attempts, base_delay, attempt,
                   last_exception, rlog, fetch_vars, story_vars, audio_vars,
                   send_vars, main_vars, remote_ok, remote_err>>

ScriptNext == GenerateScript

ScriptSpec == ScriptInit /\ [][ScriptNext]_vars

\* the last n pieces of a text
Suffix(s, n) == SubSeq(s, Len(s) - n + 1, Len(s))

\* names[1], ..., names[k] separated by ", "
RECURSIVE CommaList(_, _)
CommaList(names, k) ==
    IF k = 1 THEN names[1]
    ELSE CommaList(names, k - 1) \o <<",", " ">> \o names[k]

\* the source naming the outro is to show
ExpectedSources(names) ==
    CASE Len(names) = 0 -> <<"various sources">>
      [] Len(names) = 1 -> names[1]
      [] OTHER -> CommaList(names, Len(names) - 1)
                  \o <<",", " ", "a", "n", "d", " ">> \o names[Len(names)]

\* C18: the outro of the script names the sources by this rule, for every
\* source list: the empty list gives 'various sources', [A] gives 'A', and
\* n > 1 names give all but the last joined with ', ' followed by ', and '
\* and the last ([A,B] gives 'A, and B', [A,B,C] gives 'A, B, and C'); the
\* script ends with the outro built from it.
C18_OutroSourceNaming ==
    /\ OutroSources(<< <<"A">>, <<"B">> >>) = <<"A", ",", " ", "a", "n", "d", " ", "B">>
    /\ OutroSources(<< <<"A">>, <<"B">>, <<"C">> >>) =
          <<"A", ",", " ", "B", ",", " ", "a", "n", "d", " ", "C">>
    /\ pc = "script_returned" =>
          LET expected == ExpectedSources(newsletters_processed)
              outro == <<"This summary was compiled from ">> \o expected
                       \o <<". ", "Have a great day, and I'll see you tomorrow.">>
          IN  /\ OutroSources(newsletters_processed) = expected
              /\ Len(retval) >= Len(outro)
              /\ Suffix(retval, Len(outro)) = outro

C18_Witness ==
    /\ pc = "script_returned"
    /\ Len(newsletters_processed) = 3
    /\ Suffix(retval, 11) = <<",", " ", "a", "n", "d", " ", "c", "@", "y">>
                           \o <<". ", "Have a great day, and I'll see you tomorrow.">>

NonEmptyText(s) == s # <<>>

\* three newlines in a row: more than one blank line between two sections
StrayBlankLine(text) ==
    \E k \in 1..(Len(text) - 2) :
        text[k] = "\n" /\ text[k + 1] = "\n" /\ text[k + 2] = "\n"

\* C19 (as claimed): the script is its non-empty sections joined with exactly
\* one blank line between consecutive ones; an empty section contributes
\* nothing: when top_stories is empty (executive summary and top-stories
\* detail both empty) there is no extra blank line between the intro and the
\* next non-empty section.
C19_NoStrayBlankLines ==
    pc = "script_returned" =>
        /\ \E date_spoken \in DatesSpoken :
              retval = Join(BlankLine,
                            SelectSeq(Sections(processed_data, newsletters_processed,
                                               date_spoken), NonEmptyText))
        /\ ~StrayBlankLine(retval)

\* '. ' occurs in s at position k
SeparatorAt(s, k) == k + 1 <= Len(s) /\ s[k] = "." /\ s[k + 1] = " "

\* the part of a summary before the first occurrence of '. ' (all of it when
\* there is none)
ExpectedFragment(summary) ==
    LET cut == CHOOSE k \in 0..Len(summary) :
                  /\ k = Len(summary) \/ SeparatorAt(summary, k + 1)
                  /\ \A j \in 1..k : ~SeparatorAt(summary, j)
    IN  SubSeq(summary, 1, cut)

\* what the roundup is to say of a secondary story with headline and summary
ExpectedLine(story) ==
    LET fragment == ExpectedFragment(story.summary)
    IN  story.headline \o <<".", " ">> \o fragment
        \o (IF fragment # <<>> /\ fragment[Len(fragment)] = "." THEN <<>> ELSE <<".">>)

\* C20: for every secondary story with both a headline and a summary the
\* script has the headline followed by only the part of the summary before
\* the first '. ', a period being appended only when that part does not end
\* in one ('Foo. Bar.' gives 'Foo.'); a secondary story with a headline and
\* no summary gives the headline alone, and one without headline nothing.
C20_SecondaryFirstSentence ==
    /\ SecondaryLine([headline |-> <<"H">>,
                      summary |-> <<"F", "o", "o", ".", " ", "B", "a", "r", ".">>])
          = << <<"H", ".", " ", "F", "o", "o", ".">> >>
    /\ pc = "script_returned" =>
          \A j \in 1..Len(processed_data.secondary_stories) :
              LET story == processed_data.secondary_stories[j]
                  line == SecondaryLine(story)
              IN  /\ (story.headline # <<>> /\ story.summary # <<>>) =>
                        /\ line = << ExpectedLine(story) >>
                        /\ Contains(retval, <<" ">> \o ExpectedLine(story))
                  /\ (story.headline # <<>> /\ story.summary = <<>>) =>
                        /\ line = << story.headline \o <<".">> >>
                        /\ Contains(retval, <<" ">> \o story.headline \o <<".">>)
                  /\ story.headline = <<>> => line = <<>>

C20_Witness ==
    /\ pc = "script_returned"
    /\ Len(processed_data.secondary_stories) = 2
    /\ processed_data.secondary_stories[1].summary =
          <<"F", "o", "o", ".", " ", "B", "a", "r", ".">>
    /\ processed_data.secondary_stories[2].summary = <<>>
    /\ Contains(retval, <<" ", "H", ".", " ", "F", "o", "o", ".", " ", "H", ".", "\n">>)

\* ======================================================================
\* BriefingSpec: one call of BriefingGenerator.generate (briefing_generator.py)
\* ======================================================================

\* config.py:76-78  the default subject prefix
subject_prefix == <<"[AI Briefing]">>

\* briefing_generator.py:92-93  the longest headline shown in full
HeadlineLimit == 60

\* briefing_generator.py:92-94  top_headline
TruncateHeadline_cut(headline) == Take(headline, HeadlineLimit)
TruncateHeadline(headline) ==
    Take(headline, HeadlineLimit)
    \o (IF Len(headline) > HeadlineLimit THEN <<".", ".", ".">> ELSE <<>>)

\* briefing_generator.py:86-97
build_subject(prefix, date_str, top_stories) ==
    IF top_stories # <<>>
    THEN prefix \o <<" ", date_str, ":", " ">> \o TruncateHeadline(top_stories[1].headline)
    ELSE prefix \o <<" ", date_str>>

\* briefing_generator.py:102-108  the bullets of the first n stories
RECURSIVE Bullets(_, _)
Bullets(stories, n) ==
    IF n = 0 THEN <<>>
    ELSE Bullets(stories, n - 1)
         \o (IF stories[n].headline # <<>> /\ stories[n].why_it_matters # <<>>
             THEN << stories[n].headline \o <<":", " ">> \o stories[n].why_it_matters >>
             ELSE IF stories[n].headline # <<>>
                  THEN << stories[n].headline >>
                  ELSE <<>>)

\* briefing_generator.py:99-109
build_executive_summary_all(top_stories) == Bullets(top_stories, Len(top_stories))
build_executive_summary(top_stories) ==
    Bullets(Take(top_stories, 5), Len(Take(top_stories, 5)))

\* a headline of n characters, the j-th being the last digit of j
HeadlineOfLength(n) == [j \in 1..n |-> ToString(j % 10)]

\* top stories with a short headline, with and without why_it_matters, and
\* without headline
BriefStories ==
    { [headline |-> <<"H">>, why_it_matters |-> <<"W", ".">>],
      [headline |-> <<"K">>, why_it_matters |-> <<>>],
      [headline |-> <<>>, why_it_matters |-> <<"W", ".">>] }

\* first top stories whose headline has 60, 61 and 75 characters
LongHeadlineStories ==
    { [headline |-> HeadlineOfLength(60), why_it_matters |-> <<>>],
      [headline |-> HeadlineOfLength(61), why_it_matters |-> <<"W", ".">>],
      [headline |-> HeadlineOfLength(75), why_it_matters |-> <<>>] }

\* the top-story lists given to the renderer: any first story, then short ones
BriefTopLists ==
    {<<>>} \cup {<<first>> \o others :
                    first \in BriefStories \cup LongHeadlineStories,
                    others \in SeqsUpTo(BriefStories, MaxBriefTop - 1)}

\* briefing_generator.py:41-42  today.strftime("%B %d, %Y")
DateStrs == {"January 05, 2026", "November 03, 2026"}

\* main.py:218-221  generator.generate(processed_data, newsletters_processed);
\* here processed_data holds the top stories themselves
BriefingInit ==
    /\ pc = "render_briefing"
    /\ config = [NoConfig EXCEPT !.anthropic_api_key = TRUE]
    /\ processed_data \in [top_stories : BriefTopLists, secondary_stories : {<<>>}]
    /\ newsletters_processed = << <<"A", "l", "f", "a">> >>
    /\ max_attempts = 0
    /\ base_delay = 0
    /\ attempt = 0
    /\ last_exception = NoException
    /\ rlog = <<>>
    /\ retval = None
    /\ raised = NoException
    /\ service = TRUE
    /\ email_list = <<>>
    /\ fetch_i = 1
    /\ fetch_log = <<>>
    /\ newsletters = <<>>
    /\ raw_stories = None
    /\ audio_path = None
    /\ audio_file = FALSE
    /\ briefing = None
    /\ send_log = <<>>
    /\ result = None
    /\ notified = <<>>
    /\ exit_code = None
    /\ invoked = {}
    /\ completed = {}
    /\ remote_ok = {}
    /\ remote_err = {}
    /\ script_log = <<>>

briefing_rest == <<config, script_log, service, retry_vars, fetch_vars, story_vars,
                   audio_vars, send_log, main_vars, remote_ok, remote_err>>

\* briefing_generator.py:26-84  generate returns the briefing: its subject and
\* the executive-summary bullets its HTML and text bodies show (the bodies, a
\* template rendering and a fixed layout, are not modelled); the date is read
\* from the clock inside generate
RenderBriefing ==
    /\ pc = "render_briefing"
    /\ \E date_str \in DateStrs :
          briefing' =
             [subject |-> build_subject(subject_prefix, date_str,
                                        processed_data.top_stories),
              executive_summary |-> build_executive_summary(processed_data.top_stories)]
    /\ pc' = "briefing_returned"
    /\ invoked' = invoked \cup {"generate_briefing"}
    /\ completed' = completed \cup {"generate_briefing"}
    /\ UNCHANGED <<briefing_rest, raised>>

\* briefing_generator.py:57-69  loading or rendering the template raises
RenderBriefingFails ==
    /\ pc = "render_briefing"
    /\ raised' = Exc("TemplateError", "generate_briefing", 1)
    /\ pc' = "briefing_raised"
    /\ invoked' = invoked \cup {"generate_briefing"}
    /\ UNCHANGED <<briefing_rest, briefing, completed>>

BriefingNext == RenderBriefing \/ RenderBriefingFails

BriefingSpec == BriefingInit /\ [][BriefingNext]_vars

\* C21: the briefing subject is the configured prefix, then the date, then,
\* only if top_stories is non-empty, a colon and the first top story's
\* headline: a headline longer than 60 characters appears as exactly its
\* first 60 characters followed by '...', a headline of at most 60 characters
\* appears verbatim with no ellipsis, and with no top stories the subject has
\* neither colon nor headline.
C21_SubjectTruncation ==
    pc = "briefing_returned" =>
        LET subject == briefing.subject
            top == processed_data.top_stories
        IN  /\ Len(subject) >= 3
            /\ subject[1] = "[AI Briefing]"
            /\ subject[2] = " "
            /\ subject[3] \in DateStrs
            /\ top = <<>> => Len(subject) = 3
            /\ top # <<>> =>
                  LET headline == top[1].headline
                      shown == SubSeq(subject, 6, Len(subject))
                  IN  /\ Len(subject) >= 5
                      /\ subject[4] = ":"
                      /\ subject[5] = " "
                      /\ Len(headline) <= 60 => shown = headline
                      /\ Len(headline) > 60 =>
                            /\ Len(shown) = 63
                            /\ \A j \in 1..60 : shown[j] = headline[j]
                            /\ \A j \in 61..63 : shown[j] = "."

C21_Witness ==
    /\ pc = "briefing_returned"
    /\ Len(processed_data.top_stories) = 2
    /\ Len(processed_data.top_stories[1].headline) = 75
    /\ Len(briefing.subject) = 68
    /\ briefing.subject[65] = "0"
    /\ briefing.subject[66] = "."

\* ======================================================================
\* NarrationSpec: ScriptGenerator.generate invoked repeatedly on the same
\* inputs, with top-story lists of up to MaxDetail stories
\* ======================================================================

\* top stories: those of ScriptSpec and one whose headline ends in a period
DetailStories ==
    TopStories
    \cup { [headline |-> <<"V", ".">>, summary |-> <<"S", ".">>, why_it_matters |-> <<>>,
            sources |-> <<>>, mention_count |-> 1] }

NarrationInit ==
    /\ pc = "generate"
    /\ config = [NoConfig EXCEPT !.audio_enabled = TRUE, !.anthropic_api_key = TRUE]
    /\ processed_data \in
          [top_stories : SeqsUpTo(DetailStories, MaxDetail),
           secondary_stories :
              {<<>>, << [headline |-> <<"H">>, summary |-> <<"F", "o", "o">>] >>}]
    /\ newsletters_processed \in {<<>>, << <<"A", "l", "f", "a">>, <<"B", "e", "t", "a">> >>}
    /\ max_attempts = 0
    /\ base_delay = 0
    /\ attempt = 0
    /\ last_exception = NoException
    /\ rlog = <<>>
    /\ retval = None
    /\ raised = NoException
    /\ service = TRUE
    /\ email_list = <<>>
    /\ fetch_i = 1
    /\ fetch_log = <<>>
    /\ newsletters = <<>>
    /\ raw_stories = None
    /\ audio_path = None
    /\ audio_file = FALSE
    /\ briefing = None
    /\ send_log = <<>>
    /\ result = None
    /\ notified = <<>>
    /\ exit_code = None
    /\ invoked = {}
    /\ completed = {}
    /\ remote_ok = {}
    /\ remote_err = {}
    /\ script_log = <<>>

\* script_generator.py:10-49  generate is invoked again with the same
\* arguments (it does not modify them), at a later or earlier clock reading
GenerateScriptAgain ==
    /\ pc = "script_returned"
    /\ Len(script_log) < MaxInvocations
    /\ \E now \in Instants :
          /\ retval' = generate(processed_data, newsletters_processed,
                                strftime_spoken(now))
          /\ script_log' = Append(script_log, [now |-> now, script |-> retval'])
    /\ UNCHANGED <<config, pc, raised, service, max_attempts, base_delay, attempt,
                   last_exception, rlog, fetch_vars, story_vars, audio_vars,
                   send_vars, main_vars, hist_vars>>

NarrationNext == GenerateScript \/ GenerateScriptAgain

NarrationSpec == NarrationInit /\ [][NarrationNext]_vars

BulletStories(top) == {j \in 1..Len(top) : j <= 5 /\ top[j].headline # <<>>}

\* C23: the executive-summary bullets of the briefing come from at most the
\* first 5 top stories, in input order: a story with headline and
\* why_it_matters yields '{headline}: {why_it_matters}', a story with only a
\* headline yields the headline alone, a story without a headline yields no
\* bullet, and stories beyond the fifth never yield one.
C23_ExecutiveSummaryBullets ==
    pc = "briefing_returned" =>
        LET top == processed_data.top_stories
            bullets == briefing.executive_summary
        IN  /\ Len(bullets) = Cardinality(BulletStories(top))
            /\ Len(bullets) <= 5
            /\ \A j \in BulletStories(top) :
                  LET position == Cardinality({i \in BulletStories(top) : i <= j})
                  IN  bullets[position] =
                         IF top[j].why_it_matters # <<>>
                         THEN top[j].headline \o <<":", " ">> \o top[j].why_it_matters
                         ELSE top[j].headline

C23_Witness ==
    /\ pc = "briefing_returned"
    /\ Len(processed_data.top_stories) = 6
    /\ processed_data.top_stories[2].headline = <<>>
    /\ processed_data.top_stories[6].headline # <<>>
    /\ Len(briefing.executive_summary) = 4
    /\ briefing.executive_summary[2] = <<"H", ":", " ", "W", ".">>
    /\ briefing.executive_summary[3] = <<"K">>

\* C24: every result returned by run_pipeline has success = true, and the run
\* raises instead of returning only when an exception was not recovered; in
\* every returned result newsletters_processed (when present) is at most
\* newsletters_found, and briefing_sent = true implies newsletters_found >= 1,
\* newsletters_processed >= 1 and stories_extracted >= 1.
C24_ReturnedResultShape ==
    /\ RunReturned =>
          /\ result.success
          /\ "newsletters_processed" \in DOMAIN result =>
                result.newsletters_processed <= result.newsletters_found
          /\ result.briefing_sent =>
                /\ result.newsletters_found >= 1
                /\ result.newsletters_processed >= 1
                /\ result.stories_extracted >= 1
    /\ RunRaised =>
          /\ result = None
          /\ \/ raised = last_exception /\ NumFailed(rlog) = max_attempts
             \/ raised.origin \in {"anthropic_api_key", "authenticate", "generate_briefing"}

C24_Witness ==
    /\ pc = "returned"
    /\ result.briefing_sent
    /\ result.newsletters_processed < result.newsletters_found
    /\ result.stories_extracted >= 1

\* C25: if the operation first succeeds on attempt k <= max_attempts,
\* retry_with_backoff returns the result of that k-th invocation, the operation
\* has been invoked exactly k times (k - 1 failures before it) and is never
\* invoked again after the success; in no case is the operation invoked more
\* than max_attempts times.
C25_FirstSuccessReturns ==
    /\ NumCalls(rlog) <= max_attempts
    /\ \A j \in 1..Len(rlog) :
          (rlog[j].ev = "call" /\ rlog[j].ok) =>
             /\ j = Len(rlog)
             /\ pc = "func_returned"
             /\ rlog[j].k <= max_attempts
             /\ retval = [value |-> "result", k |-> rlog[j].k]
             /\ NumCalls(rlog) = rlog[j].k
             /\ NumFailed(rlog) = rlog[j].k - 1
    /\ pc = "func_returned" =>
          /\ rlog # <<>>
          /\ rlog[Len(rlog)].ev = "call"
          /\ rlog[Len(rlog)].ok
    /\ pc = "func" => retval = None

C25_Witness ==
    /\ pc = "func_returned"
    /\ retval.k = 3
    /\ max_attempts > 3
    /\ NumCalls(rlog) = 3
    /\ NumFailed(rlog) = 2

\* a headline as its own sentence: a period is added only when it is missing
HeadlineSentence(headline) ==
    IF EndsWithPeriod(headline) THEN headline ELSE headline \o <<".">>

RECURSIVE HeadlineSentences(_, _)
HeadlineSentences(stories, n) ==
    IF n = 0 THEN <<>>
    ELSE HeadlineSentences(stories, n - 1)
         \o (IF stories[n].headline # <<>>
             THEN << HeadlineSentence(stories[n].headline) >> ELSE <<>>)

ExpectedOverview(top_stories) ==
    IF top_stories = <<>> THEN <<>>
    ELSE Join(<<" ">>,
              << <<"First, a quick overview of today's top headlines.">> >>
              \o HeadlineSentences(top_stories, Min(5, Len(top_stories))))

\* C26 (as claimed): in the script's executive summary each of up to the first
\* 5 top-story headlines is emitted verbatim as its own sentence, with a period
\* appended only if the headline does not already end with one.
C26_HeadlinePeriodOnlyIfMissing ==
    \A j \in 1..Len(script_log) :
        script_log[j].script =
            Join(BlankLine,
                 [Sections(processed_data, newsletters_processed,
                           strftime_spoken(script_log[j].now))
                    EXCEPT ![2] = ExpectedOverview(processed_data.top_stories)])

TransitionPhrases ==
    {"Our top story today:", "And finally in our top stories:", "Next up:"}

\* the transition phrase of the story at position i of n
TransitionPhrase(i, n) ==
    CASE i = 1 -> "Our top story today:"
      [] i > 1 /\ i = n -> "And finally in our top stories:"
      [] OTHER -> "Next up:"

IsTransitionPhrase(piece) == piece \in TransitionPhrases

\* the text of story i after its transition phrase
StoryBody(top_stories, i) ==
    SubSeq(TopStoryText(top_stories, i), 2, Len(TopStoryText(top_stories, i)))

ExpectedDetail(top_stories) ==
    IF top_stories = <<>> THEN <<>>
    ELSE Join(BlankLine,
              << <<"Now, let's dive into the details.">> >>
              \o [i \in 1..Len(top_stories) |->
                    <<TransitionPhrase(i, Len(top_stories))>>
                    \o StoryBody(top_stories, i)])

\* C27: the top-stories detail of the script takes the stories in input
\* order; the story at position 1 is introduced with 'Our top story today:',
\* the story at the last position n (n > 1) with 'And finally in our top
\* stories:', every other with 'Next up:'; with n = 1 the only story gets
\* 'Our top story today:' and no 'And finally' appears.
C27_TransitionPhrases ==
    \A j \in 1..Len(script_log) :
        LET top == processed_data.top_stories
            script == script_log[j].script
        IN  /\ script =
                  Join(BlankLine,
                       [Sections(processed_data, newsletters_processed,
                                 strftime_spoken(script_log[j].now))
                          EXCEPT ![3] = ExpectedDetail(top)])
            /\ SelectSeq(script, IsTransitionPhrase) =
                  [i \in 1..Len(top) |-> TransitionPhrase(i, Len(top))]
            /\ Len(top) = 1 =>
                  \A p \in 1..Len(script) :
                      script[p] # "And finally in our top stories:"
            /\ \A i \in 1..Len(top) :
                  \E p \in 1..Len(script) :
                      /\ script[p] = TransitionPhrase(i, Len(top))
                      /\ SubSeq(script, p + 2, p + 1 + Len(top[i].headline))
                            = top[i].headline

C27_Witness ==
    /\ pc = "script_returned"
    /\ Len(processed_data.top_stories) = 3
    /\ processed_data.top_stories[1].headline = <<"T">>
    /\ processed_data.top_stories[2].headline = <<"U">>
    /\ processed_data.top_stories[3].headline = <<"V", ".">>
    /\ SelectSeq(retval, IsTransitionPhrase) =
          <<"Our top story today:", "Next up:", "And finally in our top stories:">>

SentCount(log) == Cardinality({j \in 1..Len(log) : log[j].sent})

\* C28: at most one briefing email is sent successfully per run; after a
\* successful send the send collaborator is never invoked again (the
\* successful send is the last one of the run and the run has left the send
\* stage); briefing_sent = true is reported only in runs where one send
\* attempt succeeded.
C28_AtMostOneBriefingSent ==
    /\ SentCount(send_log) <= 1
    /\ \A j \in 1..Len(send_log) :
          send_log[j].sent =>
             /\ j = Len(send_log)
             /\ pc \in {"cleanup", "returned", "exit"}
    /\ Len(send_log) <= config.max_retry_attempts
    /\ (RunReturned /\ result.briefing_sent) => SentCount(send_log) = 1

C28_Witness ==
    /\ pc = "returned"
    /\ result.briefing_sent
    /\ Len(send_log) = 2
    /\ ~send_log[1].sent
    /\ send_log[2].sent

\* the source names of the messages fetched so far, in fetch order
FetchedNames ==
    [k \in 1..Len(FetchedIds(fetch_log)) |->
        ExpectedName(email_list[FetchedIds(fetch_log)[k]])]

\* the fetched messages whose source name no earlier fetched message has
FirstOccurrences ==
    {k \in 1..Len(FetchedNames) :
        \A k2 \in 1..(k - 1) : FetchedNames[k2] # FetchedNames[k]}

\* C29: at every point of the content-fetch loop the processed-source list
\* holds no name twice; each name stands once, at the position of its first
\* successfully fetched occurrence; the list is never longer than the number
\* of successfully fetched messages.
C29_ProcessedSourcesDistinct ==
    /\ \A i, j \in 1..Len(newsletters_processed) :
          i # j => newsletters_processed[i] # newsletters_processed[j]
    /\ Len(newsletters_processed) = Cardinality(FirstOccurrences)
    /\ \A k \in FirstOccurrences :
          newsletters_processed[Cardinality({x \in FirstOccurrences : x <= k})]
             = FetchedNames[k]
    /\ Len(newsletters_processed) <= Len(FetchedIds(fetch_log))
    /\ Len(newsletters_processed) <= Len(newsletters)

C29_Witness ==
    /\ Len(email_list) = 3
    /\ fetch_log = <<[id |-> 1, ok |-> FALSE], [id |-> 2, ok |-> TRUE],
                     [id |-> 3, ok |-> TRUE]>>
    /\ email_list[1] # email_list[2]
    /\ email_list[2] = email_list[3]
    /\ newsletters_processed = << ExpectedName(email_list[2]) >>
    /\ Len(newsletters) = 2

\* extraction returned at least one story
StoriesExtracted == "extract_stories" \in completed /\ raw_stories >= 1

RunOver == pc \in {"returned", "raised", "send_error_notification", "exit"}

\* C30 (as claimed): there is no early exit after Deduplicating: once
\* extraction has returned at least one story the run always proceeds to
\* Rendering and Sending, also when the deduplication result is empty-shaped,
\* and it then reports briefing_sent = true with stories_after_dedup = 0.
C30_AlwaysRendersAndSends ==
    (StoriesExtracted /\ "deduplicate" \in completed /\ RunOver) =>
        /\ "generate_briefing" \in invoked
        /\ "send_briefing" \in invoked
        /\ RunReturned
        /\ result.briefing_sent
        /\ EmptyShaped(processed_data) => result.stories_after_dedup = 0

\* C30 (amended): there is no early return after Deduplicating: once
\* extraction has returned at least one story and Deduplicating has returned,
\* whatever the shape of its result, the run goes on (through the audio stage
\* when enabled) to Rendering and Sending and returns only after a successful
\* send, reporting briefing_sent = true and stories_after_dedup = top +
\* secondary (0 for the empty-shaped result); it ends otherwise only by raising,
\* when deduplication fails on every attempt, rendering raises or the send
\* fails on every attempt.
C30_NoEarlyReturnAfterDedup ==
    StoriesExtracted =>
        /\ "deduplicate" \in completed =>
              pc \in {"generate_script", "generate_audio", "generate_briefing",
                      "send_email", "cleanup", "returned", "raised",
                      "send_error_notification", "exit"}
        /\ RunReturned =>
              /\ {"deduplicate", "generate_briefing", "send_briefing"} \subseteq completed
              /\ SentCount(send_log) = 1
              /\ result.briefing_sent
              /\ result.stories_extracted = raw_stories
              /\ result.stories_after_dedup =
                    processed_data.top_stories + processed_data.secondary_stories
              /\ EmptyShaped(processed_data) => result.stories_after_dedup = 0
        /\ RunRaised =>
              \/ raised.origin = "deduplicate" /\ raised.k = config.max_retry_attempts
              \/ raised.origin = "generate_briefing"
              \/ (/\ raised.origin \in {"send_email", "No recipient email configured"}
                  /\ raised.k = config.max_retry_attempts)

C30_Witness ==
    /\ pc = "returned"
    /\ "deduplicate" \in remote_err
    /\ raw_stories >= 1
    /\ EmptyShaped(processed_data)
    /\ "send_briefing" \in completed
    /\ result.briefing_sent
    /\ result.stories_after_dedup = 0

====
